---------------------------- MODULE Spec2Model ----------------------------
(***************************************************************************)
(* Model of crypto/fips140-selftests.c: the known-answer self-tests of the *)
(* fips140 module.  fips140_run_selftests() walks fips140_selftests[] in   *)
(* order, calls each entry's test function and stops at the first error.   *)
(*                                                                         *)
(* Every test function is modelled step by step: one action per provider   *)
(* call (or group of adjacent statements with no call between them).  The  *)
(* crypto API is the environment: what an allocation, a set-key or a       *)
(* transform returns is chosen nondeterministically the first time the     *)
(* call is made for an algorithm and is remembered in prov, so that a      *)
(* later run meets the same provider behaviour.                            *)
(***************************************************************************)
EXTENDS Integers, Sequences, FiniteSets, TLC

\* Number of times fips140_run_selftests() is called in one behaviour.
MaxRuns == 2

(***************************************************************************)
(* Kernel constants used by the file (not defined in it).                  *)
(***************************************************************************)
MAX_CIPHER_BLOCKSIZE == 16
AES_BLOCK_SIZE == 16
HASH_MAX_DIGESTSIZE == 64
SHA256_DIGEST_SIZE == 32
ENOMEM == 12
EINVAL == 22
EBADMSG == 74
\* #define MAX_IV_SIZE 16
MAX_IV_SIZE == 16

\* A null pointer held in a local variable, and the name of no algorithm
\* (fips140_broken_alg == NULL).
NULL == "NULL"
\* A null `const u8 *' field of a test vector.  A C array is never empty, so
\* the empty sequence is free to stand for the null pointer.
NoData == << >>
\* A byte of an automatic array that has not been written yet.
UNINIT == -1

(***************************************************************************)
(* Bytes.                                                                  *)
(***************************************************************************)
\* b ^ 0xff on a u8.
XorFF(b) == 255 - b
\* b ^ 0x01 on a u8.
Xor01(b) == IF b % 2 = 0 THEN b + 1 ELSE b - 1

\* The first n elements of s (all of s when it is shorter).
Take(s, n) == SubSeq(s, 1, IF n < Len(s) THEN n ELSE Len(s))

\* memcmp(a, b, n) != 0
MemDiffers(a, b, n) == \E k \in 1..n : a[k] # b[k]

\* memcpy(dst, src, n): the first n bytes of dst replaced by those of src.
\* When n is more than dst holds, the bytes written past its end are kept
\* behind it, so that the overflow shows in the length.
Memcpy(dst, src, n) ==
  [k \in 1..(IF n > Len(dst) THEN n ELSE Len(dst)) |->
     IF k <= n THEN src[k] ELSE dst[k]]

\* An automatic u8 array of n bytes, not yet written.
Uninit(n) == [k \in 1..n |-> UNINIT]

\* kzalloc(n)
Zeroed(n) == [k \in 1..n |-> 0]

(***************************************************************************)
(* Test vectors of fips140-generated-testvecs.h (line 607).  The header is *)
(* generated and is not among the sources; the sizes are those the modes   *)
(* and digests require and the byte values are placeholders.               *)
(***************************************************************************)
TestBytes(seed, n) == [k \in 1..n |-> (seed * 37 + k * 11) % 256]

fips_message == TestBytes(1, 32)
fips_aes_key == TestBytes(2, 16)
fips_aes_iv == TestBytes(3, 16)
fips_aes_xts_key == TestBytes(4, 32)
fips_aes_gcm_assoc == TestBytes(5, 22)
fips_hmac_key == TestBytes(6, 16)
fips_aes_ecb_ciphertext == TestBytes(7, 32)
fips_aes_cbc_ciphertext == TestBytes(8, 32)
fips_aes_ctr_ciphertext == TestBytes(9, 32)
fips_aes_xts_ciphertext == TestBytes(10, 32)
fips_aes_gcm_ciphertext == TestBytes(11, 48)
fips_sha1_digest == TestBytes(12, 20)
fips_sha256_digest == TestBytes(13, SHA256_DIGEST_SIZE)
fips_hmac_sha256_digest == TestBytes(14, SHA256_DIGEST_SIZE)
fips_sha512_digest == TestBytes(15, 64)

(***************************************************************************)
(* The DRBG vectors, written out in fips140_selftests[].                   *)
(***************************************************************************)
\* .entropy of "drbg_nopr_hmac_sha256" (source lines 770-773)
drbg_nopr_entropy ==
  <<
    249, 122, 60, 253, 145, 250, 160, 70, 185, 230, 27, 148, 147, 212, 54,
    196, 147, 31, 96, 75, 34, 241, 8, 21, 33, 179, 65, 145, 81, 232, 255,
    6, 17, 243, 167, 212, 53, 149, 53, 125, 88, 18, 11, 209, 226, 221, 138,
    237 >>

\* .output of "drbg_nopr_hmac_sha256" (source lines 776-786)
drbg_nopr_output ==
  <<
    198, 135, 28, 255, 8, 36, 254, 85, 234, 118, 137, 165, 34, 41, 136,
    103, 48, 69, 14, 93, 54, 45, 165, 191, 89, 13, 207, 154, 205, 103, 254,
    212, 203, 50, 16, 125, 245, 208, 57, 105, 166, 107, 31, 100, 148, 253,
    245, 214, 61, 91, 77, 13, 52, 234, 115, 153, 160, 125, 1, 22, 18, 109,
    13, 81, 140, 124, 85, 186, 70, 225, 47, 98, 239, 200, 254, 40, 165, 28,
    157, 66, 142, 109, 55, 29, 115, 151, 171, 49, 159, 199, 61, 237, 71,
    34, 229, 180, 243, 0, 4, 3, 42, 97, 40, 223, 94, 116, 151, 236, 248,
    44, 167, 176, 165, 14, 134, 126, 246, 114, 138, 79, 80, 154, 140, 133,
    144, 135, 3, 156 >>

\* .add_a of "drbg_nopr_hmac_sha256" (source lines 789-791)
drbg_nopr_add_a ==
  <<
    81, 114, 137, 175, 228, 68, 160, 254, 94, 209, 164, 29, 187, 181, 235,
    23, 21, 0, 121, 189, 211, 30, 41, 207, 47, 243, 0, 52, 216, 38, 142, 59 >>

\* .add_b of "drbg_nopr_hmac_sha256" (source lines 793-795)
drbg_nopr_add_b ==
  <<
    136, 2, 141, 41, 239, 128, 180, 230, 240, 254, 18, 249, 29, 116, 73,
    254, 117, 6, 38, 130, 232, 156, 87, 20, 64, 192, 201, 181, 44, 66, 166,
    224 >>

\* .entropy of "drbg_pr_hmac_sha256" (source lines 803-806)
drbg_pr_entropy ==
  <<
    199, 204, 188, 103, 126, 33, 102, 30, 39, 43, 99, 221, 58, 120, 220,
    223, 102, 109, 63, 36, 174, 207, 55, 1, 169, 13, 137, 138, 167, 220,
    129, 88, 174, 178, 16, 21, 126, 24, 68, 109, 19, 234, 223, 55, 133,
    254, 129, 251 >>

\* .entpr_a of "drbg_pr_hmac_sha256" (source lines 809-811)
drbg_pr_entpr_a ==
  <<
    123, 161, 145, 91, 60, 4, 196, 27, 29, 25, 47, 26, 24, 129, 96, 60,
    108, 98, 145, 183, 233, 245, 203, 150, 187, 129, 106, 204, 181, 174,
    85, 182 >>

\* .entpr_b of "drbg_pr_hmac_sha256" (source lines 813-815)
drbg_pr_entpr_b ==
  <<
    153, 44, 199, 120, 126, 59, 136, 18, 239, 190, 211, 210, 125, 42, 165,
    134, 218, 141, 88, 115, 74, 10, 178, 46, 187, 76, 126, 227, 154, 182,
    129, 193 >>

\* .output of "drbg_pr_hmac_sha256" (source lines 818-828)
drbg_pr_output ==
  <<
    149, 111, 149, 252, 59, 183, 254, 62, 208, 78, 26, 20, 108, 52, 127,
    123, 29, 13, 99, 94, 72, 156, 105, 230, 70, 7, 210, 135, 243, 134, 82,
    61, 152, 39, 94, 215, 84, 231, 117, 80, 79, 251, 77, 253, 172, 47, 75,
    119, 207, 158, 142, 204, 22, 162, 36, 205, 83, 222, 62, 197, 85, 93,
    213, 38, 63, 137, 223, 202, 139, 78, 30, 182, 136, 120, 99, 92, 162,
    99, 152, 78, 111, 37, 89, 177, 95, 43, 35, 176, 75, 165, 24, 93, 194,
    21, 116, 64, 89, 76, 180, 30, 207, 154, 54, 253, 67, 226, 3, 184, 89,
    145, 48, 137, 42, 200, 90, 67, 35, 124, 115, 114, 218, 63, 173, 43,
    186, 0, 107, 209 >>

\* .add_a of "drbg_pr_hmac_sha256" (source lines 831-833)
drbg_pr_add_a ==
  <<
    24, 232, 23, 255, 239, 57, 199, 65, 92, 115, 3, 3, 246, 61, 232, 95,
    200, 171, 228, 171, 15, 173, 232, 214, 134, 136, 85, 40, 193, 105, 221,
    118 >>

\* .add_b of "drbg_pr_hmac_sha256" (source lines 835-837)
drbg_pr_add_b ==
  <<
    172, 7, 252, 190, 135, 14, 211, 234, 31, 126, 184, 231, 157, 236, 232,
    231, 188, 243, 24, 37, 119, 53, 74, 170, 0, 153, 42, 221, 10, 0, 80, 130 >>

\* .pers of "drbg_pr_hmac_sha256" (source lines 840-842)
drbg_pr_pers ==
  <<
    188, 85, 171, 60, 246, 82, 176, 17, 61, 123, 144, 184, 36, 201, 38, 78,
    90, 30, 119, 13, 61, 88, 74, 218, 209, 129, 233, 248, 235, 48, 143, 111 >>

(***************************************************************************)
(* static const struct fips_test fips140_selftests[].  Each entry keeps    *)
(* the member of the anonymous union that its initializer names; a field   *)
(* the initializer leaves out is zero (NoData / 0).                        *)
(***************************************************************************)
BlockcipherVec(key, plaintext, ciphertext, block_size) ==
  [key |-> key, key_size |-> Len(key), plaintext |-> plaintext,
   ciphertext |-> ciphertext, block_size |-> block_size]

\* SkcipherVec with a message_size one more than the plaintext is long.
SkcipherVec_long(key, iv, plaintext, ciphertext) ==
  [key |-> key, key_size |-> Len(key), iv |-> iv, iv_size |-> Len(iv),
   plaintext |-> plaintext, ciphertext |-> ciphertext,
   message_size |-> Len(plaintext) + 1]

SkcipherVec(key, iv, plaintext, ciphertext) ==
  [key |-> key, key_size |-> Len(key), iv |-> iv, iv_size |-> Len(iv),
   plaintext |-> plaintext, ciphertext |-> ciphertext,
   message_size |-> Len(plaintext)]

AeadVec(key, iv, iv_size, assoc, plaintext, ciphertext) ==
  [key |-> key, key_size |-> Len(key), iv |-> iv, iv_size |-> iv_size,
   assoc |-> assoc, assoc_size |-> Len(assoc),
   plaintext |-> plaintext, plaintext_size |-> Len(plaintext),
   ciphertext |-> ciphertext, ciphertext_size |-> Len(ciphertext)]

HashVec(key, message, digest) ==
  [key |-> key, key_size |-> Len(key), message |-> message,
   message_size |-> Len(message), digest |-> digest,
   digest_size |-> Len(digest)]

fips140_selftests ==
  << [alg |-> "aes", func |-> "fips_test_aes",
      blockcipher |-> BlockcipherVec(fips_aes_key, fips_message,
                                     fips_aes_ecb_ciphertext, 16)],
     [alg |-> "cbc(aes)", func |-> "fips_test_skcipher",
      skcipher |-> SkcipherVec(fips_aes_key, fips_aes_iv, fips_message,
                               fips_aes_cbc_ciphertext)],
     [alg |-> "ctr(aes)", func |-> "fips_test_skcipher",
      skcipher |-> SkcipherVec(fips_aes_key, fips_aes_iv, fips_message,
                               fips_aes_ctr_ciphertext)],
     [alg |-> "ecb(aes)", func |-> "fips_test_skcipher",
      skcipher |-> SkcipherVec(fips_aes_key, NoData, fips_message,
                               fips_aes_ecb_ciphertext)],
     [alg |-> "gcm(aes)", func |-> "fips_test_aead",
      aead |-> AeadVec(fips_aes_key, fips_aes_iv, 12, fips_aes_gcm_assoc,
                       fips_message, fips_aes_gcm_ciphertext)],
     [alg |-> "xts(aes)", func |-> "fips_test_skcipher",
      skcipher |-> SkcipherVec(fips_aes_xts_key, fips_aes_iv, fips_message,
                               fips_aes_xts_ciphertext)],
     [alg |-> "sha1", func |-> "fips_test_hash",
      hash |-> HashVec(NoData, fips_message, fips_sha1_digest)],
     [alg |-> "sha256", func |-> "fips_test_sha256_library",
      hash |-> HashVec(NoData, fips_message, fips_sha256_digest)],
     [alg |-> "hmac(sha256)", func |-> "fips_test_hash",
      hash |-> HashVec(fips_hmac_key, fips_message, fips_hmac_sha256_digest)],
     [alg |-> "sha512", func |-> "fips_test_hash",
      hash |-> HashVec(NoData, fips_message, fips_sha512_digest)],
     [alg |-> "drbg_nopr_hmac_sha256", func |-> "fips_test_drbg",
      drbg |-> [entropy |-> drbg_nopr_entropy, entropy_size |-> 48,
                pers |-> NoData, pers_size |-> 0,
                entpr_a |-> NoData, entpr_b |-> NoData, entpr_size |-> 0,
                add_a |-> drbg_nopr_add_a, add_b |-> drbg_nopr_add_b,
                add_size |-> 32,
                output |-> drbg_nopr_output, out_size |-> 128]],
     [alg |-> "drbg_pr_hmac_sha256", func |-> "fips_test_drbg",
      drbg |-> [entropy |-> drbg_pr_entropy, entropy_size |-> 48,
                pers |-> drbg_pr_pers, pers_size |-> 32,
                entpr_a |-> drbg_pr_entpr_a, entpr_b |-> drbg_pr_entpr_b,
                entpr_size |-> 32,
                add_a |-> drbg_pr_add_a, add_b |-> drbg_pr_add_b,
                add_size |-> 32,
                output |-> drbg_pr_output, out_size |-> 128]] >>

\* ARRAY_SIZE(fips140_selftests)
NumTests == Len(fips140_selftests)

\* The algorithm names of the registry.
RegistryAlgs == {fips140_selftests[k].alg : k \in 1..NumTests}

(***************************************************************************)
(* Vectors the registry does not hold: each is a vector of the registry    *)
(* with one size out of the range its test function accepts.  They are     *)
(* what the WARN_ON() checks at the head of the test functions are for.    *)
(***************************************************************************)
OtherTests ==
  << [alg |-> "aes", func |-> "fips_test_aes",
      blockcipher |-> BlockcipherVec(fips_aes_key, fips_message,
                                     fips_aes_ecb_ciphertext, 32)],
     [alg |-> "cbc(aes)", func |-> "fips_test_skcipher",
      skcipher |-> SkcipherVec(fips_aes_key, fips_aes_iv \o <<0>>,
                               fips_message, fips_aes_cbc_ciphertext)],
     [alg |-> "gcm(aes)", func |-> "fips_test_aead",
      aead |-> AeadVec(fips_aes_key, fips_aes_iv \o <<0>>, 17,
                       fips_aes_gcm_assoc, fips_message,
                       fips_aes_gcm_ciphertext)],
     [alg |-> "gcm(aes)", func |-> "fips_test_aead",
      aead |-> AeadVec(fips_aes_key, fips_aes_iv, 12, fips_aes_gcm_assoc,
                       fips_message,
                       SubSeq(fips_aes_gcm_ciphertext, 1,
                              Len(fips_message)))],
     [alg |-> "sha512", func |-> "fips_test_hash",
      hash |-> HashVec(NoData, fips_message, fips_sha512_digest \o <<0>>)],
     [alg |-> "sha256", func |-> "fips_test_sha256_library",
      hash |-> HashVec(NoData, fips_message, fips_sha1_digest)] >>

(***************************************************************************)
(* State.                                                                  *)
(***************************************************************************)
VARIABLES
  fips140_broken_alg, \* the error-injection module parameter (NULL: none)
  run,                \* calls of fips140_run_selftests() started so far
  i,                  \* its loop index (1-based)
  opc,                \* where it is: "idle", "loop" or "call"
  hist,               \* per run: the setting it ran under and its verdict
  pc,                 \* where the executing test function is
  fr,                 \* the automatic variables of the executing function
  trace,              \* per run and entry: the calls the test function made
  prov                \* what the crypto API answered, per entry and call

vars == <<fips140_broken_alg, run, i, opc, hist, pc, fr, trace,
          prov>>

Runs == 1..MaxRuns

\* The values the module parameter is given: unset, each registered name and
\* one name that is not registered.
BrokenAlgChoices == {NULL} \cup RegistryAlgs \cup {"sha384"}

\* The parameter `test' (0: &fips140_selftests[i], n: &OtherTests[n]) and
\* the automatic variables before any of them is assigned.
FreshFrame ==
  [test |-> 0, tfm |-> NULL, req |-> NULL, message |-> NULL, assoc |-> NULL,
   output |-> NULL, rng |-> NULL,
   cra |-> [async |-> FALSE, size |-> 0],
   block |-> << >>, lib_block |-> << >>, iv |-> << >>, digest |-> << >>,
   msgbuf |-> << >>, assocbuf |-> << >>, outbuf |-> << >>,
   err |-> 0]

\* hist[r] before run r has started: the setting the run reads, the entries it
\* has called (in order), its return value and the algorithm pr_emerg() named.
NoVerdict ==
  [broken |-> NULL, order |-> << >>, ret |-> "none", alg |-> NULL]

\* The struct fips_test the executing test function was called with.
TestOf(k) ==
  IF fr.test = 0 THEN fips140_selftests[k] ELSE OtherTests[fr.test]

Init ==
  /\ fips140_broken_alg \in BrokenAlgChoices
  /\ run = 0
  /\ i = 1
  /\ opc = "idle"
  /\ hist = [r \in Runs |-> NoVerdict]
  /\ pc = "none"
  /\ fr = FreshFrame
  /\ trace = [r \in Runs |-> [k \in 1..NumTests |-> << >>]]
  /\ prov = << >>

(***************************************************************************)
(* The crypto API as the environment.  The first time a call is made for   *)
(* registry entry i its answer is any of the answers given; the answer is  *)
(* kept in prov and a later run gets it again.                             *)
(***************************************************************************)
Answers(call, all) ==
  IF <<i, call>> \in DOMAIN prov THEN {prov[<<i, call>>]} ELSE all

Remember(call, a) ==
  prov' = IF <<i, call>> \in DOMAIN prov THEN prov
          ELSE prov @@ (<<i, call>> :> a)

\* crypto_alloc_*(): failure, or an instance whose algorithm reports `size'
\* (block, IV or digest size) or another size, synchronous or not.
AllocAnswers(size) ==
  { [ok |-> FALSE, async |-> FALSE, size |-> 0],
    [ok |-> TRUE, async |-> FALSE, size |-> size],
    [ok |-> TRUE, async |-> FALSE, size |-> size + 1],
    [ok |-> TRUE, async |-> TRUE, size |-> size] }

\* A call that returns an int: success or an error.
ErrAnswers == {0, -EINVAL}

\* What a transform leaves in its output buffer, relative to the correct
\* result: the correct bytes, the correct bytes with byte 0 inverted, or the
\* correct bytes with the last byte wrong.
OutKinds == {"good", "flip0", "bad"}

Produced(kind, correct) ==
  CASE kind = "good" -> correct
    [] kind = "flip0" -> [correct EXCEPT ![1] = XorFF(@)]
    [] OTHER -> [correct EXCEPT ![Len(correct)] = Xor01(@)]

\* A transform that cannot fail (void).
OutAnswers == [err : {0}, out : OutKinds]

\* A transform that returns an error or produces output.
TransformAnswers ==
  [err : {0}, out : OutKinds] \cup [err : {-EINVAL}, out : {"bad"}]

\* Whether a transform that is handed the IV buffer overwrites it.  This is
\* chosen anew at every call: the test functions refill the buffer before
\* each transform.
IvWritten == BOOLEAN

(***************************************************************************)
(* The call log.                                                           *)
(***************************************************************************)
Acquire(res, ok) == [kind |-> "acquire", res |-> res, ok |-> ok]
\* A release function called with pointer p; it does nothing for NULL.
Release(res, p) == [kind |-> "release", res |-> res, ok |-> p # NULL]
Call(op, args, err) == [kind |-> "call", op |-> op, args |-> args, err |-> err]
Returned(err) == [kind |-> "return", err |-> err]

\* How the log records the first n bytes of a buffer: as the field of the
\* test vector they are set from or compared with, and the bytes (position
\* and value) that differ from that field.  A pointer into the test vector
\* is recorded as the name of the field.
Buffer(buf, n, vec, field) ==
  [of |-> field, len |-> n,
   diff |-> {<<k, buf[k]>> : k \in {j \in 1..n : buf[j] # vec[field][j]}}]

\* A step of the executing test function: the orchestrator, the registry and
\* the module parameter stay as they are.
Step(newpc, newfr, calls) ==
  /\ pc' = newpc
  /\ fr' = newfr
  /\ trace' = [trace EXCEPT ![run][i] = @ \o calls]
  /\ UNCHANGED <<fips140_broken_alg, run, i, opc, hist>>

\* `return e;' to fips140_run_selftests().
Return(e, f, calls) ==
  Step("return", [f EXCEPT !.err = e], calls \o <<Returned(e)>>)

(***************************************************************************)
(* fips_check_result() and fips_validate_alg().                            *)
(***************************************************************************)
\* InjectionRequested with the strcmp() lost: any setting injects everywhere.
InjectionRequested_any(test) == fips140_broken_alg # NULL

\* fips140_broken_alg && strcmp(test->alg, fips140_broken_alg) == 0
InjectionRequested(test) ==
  fips140_broken_alg # NULL /\ test.alg = fips140_broken_alg

\* Injected with the corruption lost: the buffer is compared as it is.
Injected_lost(test, result) == result

\* The result buffer as memcmp() sees it: result[0] ^= 0xff if requested.
Injected(test, result) ==
  IF InjectionRequested(test) THEN [result EXCEPT ![1] = XorFF(@)]
  ELSE result

\* fips_check_result with a memcmp() of the first byte only.
fips_check_result_first(test, result, expected_result, result_size) ==
  LET actual == Injected(test, result)
  IN [result |-> actual,
      err |-> IF MemDiffers(actual, expected_result, 1)
              THEN -EBADMSG ELSE 0]

\* The buffer as fips_check_result() leaves it, and the value it returns.
fips_check_result(test, result, expected_result, result_size) ==
  LET actual == Injected(test, result)
  IN [result |-> actual,
      err |-> IF MemDiffers(actual, expected_result, result_size)
              THEN -EBADMSG ELSE 0]

\* The log entry of a call of fips_check_result() with expected_result =
\* vec->field: the result buffer as passed (given) and as compared (actual).
Checked(test, vec, result, field, result_size, operation) ==
  LET r == fips_check_result(test, result, vec[field], result_size)
  IN [kind |-> "check", operation |-> operation, expected |-> field,
      size |-> result_size,
      given |-> Buffer(result, result_size, vec, field),
      actual |-> Buffer(r.result, result_size, vec, field),
      err |-> r.err]

\* fips_validate_alg with the flag test lost.
fips_validate_alg_any(cra) == 0

\* alg->cra_flags & CRYPTO_ALG_ASYNC
fips_validate_alg(cra) == IF cra.async THEN -EINVAL ELSE 0

(***************************************************************************)
(* fips_test_blockcipher(), called by fips_test_aes().  Its return value   *)
(* is assigned to the caller's err.                                        *)
(***************************************************************************)
blockcipher_alloc ==
  /\ opc = "call" /\ pc = "blockcipher_alloc"
  /\ LET test == TestOf(i)
         vec == test.blockcipher
         f == [fr EXCEPT !.block = Uninit(MAX_CIPHER_BLOCKSIZE)]
     IN IF vec.block_size > MAX_CIPHER_BLOCKSIZE
        THEN /\ Step("aes_expandkey", [f EXCEPT !.err = -EINVAL], << >>)
             /\ UNCHANGED prov
        ELSE \E a \in Answers("crypto_alloc_cipher",
                              AllocAnswers(vec.block_size)) :
               /\ Remember("crypto_alloc_cipher", a)
               /\ IF ~a.ok
                  THEN Step("aes_expandkey", [f EXCEPT !.err = -ENOMEM],
                            <<Acquire("tfm", FALSE)>>)
                  ELSE Step("blockcipher_validate",
                            [f EXCEPT !.tfm = "tfm",
                                      !.cra = [async |-> a.async,
                                               size |-> a.size]],
                            <<Acquire("tfm", TRUE)>>)

blockcipher_validate ==
  /\ opc = "call" /\ pc = "blockcipher_validate"
  /\ LET vec == TestOf(i).blockcipher
         e == fips_validate_alg(fr.cra)
     IN IF e # 0
        THEN Step("blockcipher_out", [fr EXCEPT !.err = e], << >>)
        ELSE IF fr.cra.size # vec.block_size
        THEN Step("blockcipher_out", [fr EXCEPT !.err = -EINVAL], << >>)
        ELSE Step("blockcipher_setkey", [fr EXCEPT !.err = e], << >>)
  /\ UNCHANGED prov

blockcipher_setkey ==
  /\ opc = "call" /\ pc = "blockcipher_setkey"
  /\ LET vec == TestOf(i).blockcipher
     IN \E e \in Answers("crypto_cipher_setkey", ErrAnswers) :
          /\ Remember("crypto_cipher_setkey", e)
          /\ Step(IF e # 0 THEN "blockcipher_out" ELSE "blockcipher_encrypt",
                  [fr EXCEPT !.err = e],
                  <<Call("crypto_cipher_setkey",
                         [key |-> "key", keylen |-> vec.key_size], e)>>)

blockcipher_encrypt ==
  /\ opc = "call" /\ pc = "blockcipher_encrypt"
  /\ LET vec == TestOf(i).blockcipher
         src == Memcpy(fr.block, vec.plaintext, vec.block_size)
     IN \E a \in Answers("crypto_cipher_encrypt_one", OutAnswers) :
          /\ Remember("crypto_cipher_encrypt_one", a)
          /\ Step("blockcipher_check_enc",
                  [fr EXCEPT !.block =
                     Memcpy(src, Produced(a.out, Take(vec.ciphertext,
                                                     vec.block_size)),
                            vec.block_size)],
                  <<Call("crypto_cipher_encrypt_one",
                         [src |-> Buffer(src, vec.block_size, vec,
                                         "plaintext")], 0)>>)

blockcipher_check_enc ==
  /\ opc = "call" /\ pc = "blockcipher_check_enc"
  /\ LET test == TestOf(i)
         vec == test.blockcipher
         r == fips_check_result(test, fr.block, vec.ciphertext,
                                vec.block_size)
     IN Step(IF r.err # 0 THEN "blockcipher_out" ELSE "blockcipher_decrypt",
             [fr EXCEPT !.block = r.result, !.err = r.err],
             <<Checked(test, vec, fr.block, "ciphertext", vec.block_size,
                       "encryption")>>)
  /\ UNCHANGED prov

blockcipher_decrypt ==
  /\ opc = "call" /\ pc = "blockcipher_decrypt"
  /\ LET vec == TestOf(i).blockcipher
     IN \E a \in Answers("crypto_cipher_decrypt_one", OutAnswers) :
          /\ Remember("crypto_cipher_decrypt_one", a)
          /\ Step("blockcipher_check_dec",
                  [fr EXCEPT !.block =
                     Memcpy(fr.block, Produced(a.out, Take(vec.plaintext,
                                                          vec.block_size)),
                            vec.block_size)],
                  <<Call("crypto_cipher_decrypt_one",
                         [src |-> Buffer(fr.block, vec.block_size, vec,
                                         "ciphertext")], 0)>>)

blockcipher_check_dec ==
  /\ opc = "call" /\ pc = "blockcipher_check_dec"
  /\ LET test == TestOf(i)
         vec == test.blockcipher
         r == fips_check_result(test, fr.block, vec.plaintext,
                                vec.block_size)
     IN Step("blockcipher_out",
             [fr EXCEPT !.block = r.result, !.err = r.err],
             <<Checked(test, vec, fr.block, "plaintext", vec.block_size,
                       "decryption")>>)
  /\ UNCHANGED prov

\* blockcipher_out without the crypto_free_cipher(tfm): the instance stays
\* allocated while the library functions are tested and after the return.
blockcipher_out_keep ==
  /\ opc = "call" /\ pc = "blockcipher_out"
  /\ Step("aes_expandkey", fr, << >>)
  /\ UNCHANGED prov

\* out: crypto_free_cipher(tfm); return err;
blockcipher_out ==
  /\ opc = "call" /\ pc = "blockcipher_out"
  /\ Step("aes_expandkey", fr, <<Release("tfm", fr.tfm)>>)
  /\ UNCHANGED prov

(***************************************************************************)
(* fips_test_aes()                                                         *)
(***************************************************************************)
aes_blockcipher ==
  /\ opc = "call" /\ pc = "aes"
  /\ LET vec == TestOf(i).blockcipher
         f == [fr EXCEPT !.lib_block = Uninit(AES_BLOCK_SIZE)]
     IN IF vec.block_size # AES_BLOCK_SIZE
        THEN Return(-EINVAL, f, << >>)
        ELSE Step("blockcipher_alloc", f, << >>)
  /\ UNCHANGED prov

\* aes_expandkey with the `if (err) return err;' after
\* fips_test_blockcipher() lost: the library functions are tested whatever
\* the crypto API test returned.
aes_expandkey_always ==
  /\ opc = "call" /\ pc = "aes_expandkey"
  /\ LET vec == TestOf(i).blockcipher
     IN \E e \in Answers("aes_expandkey", ErrAnswers) :
          /\ Remember("aes_expandkey", e)
          /\ LET c == Call("aes_expandkey",
                           [key |-> "key", keylen |-> vec.key_size], e)
             IN IF e # 0 THEN Return(e, fr, <<c>>)
                ELSE Step("aes_encrypt", [fr EXCEPT !.err = e], <<c>>)

\* From the return of fips_test_blockcipher() to aes_expandkey().
aes_expandkey ==
  /\ opc = "call" /\ pc = "aes_expandkey"
  /\ LET vec == TestOf(i).blockcipher
     IN IF fr.err # 0
        THEN Return(fr.err, fr, << >>) /\ UNCHANGED prov
        ELSE \E e \in Answers("aes_expandkey", ErrAnswers) :
               /\ Remember("aes_expandkey", e)
               /\ LET c == Call("aes_expandkey",
                                [key |-> "key", keylen |-> vec.key_size], e)
                  IN IF e # 0 THEN Return(e, fr, <<c>>)
                     ELSE Step("aes_encrypt", [fr EXCEPT !.err = e], <<c>>)

aes_encrypt ==
  /\ opc = "call" /\ pc = "aes_encrypt"
  /\ LET vec == TestOf(i).blockcipher
     IN \E a \in Answers("aes_encrypt", OutAnswers) :
          /\ Remember("aes_encrypt", a)
          /\ Step("aes_check_enc",
                  [fr EXCEPT !.lib_block =
                     Produced(a.out, Take(vec.ciphertext, AES_BLOCK_SIZE))],
                  <<Call("aes_encrypt",
                         [src |-> "plaintext"], 0)>>)

aes_check_enc ==
  /\ opc = "call" /\ pc = "aes_check_enc"
  /\ LET test == TestOf(i)
         vec == test.blockcipher
         r == fips_check_result(test, fr.lib_block, vec.ciphertext,
                                AES_BLOCK_SIZE)
         c == Checked(test, vec, fr.lib_block, "ciphertext", AES_BLOCK_SIZE,
                      "encryption (library API)")
         f == [fr EXCEPT !.lib_block = r.result, !.err = r.err]
     IN IF r.err # 0 THEN Return(r.err, f, <<c>>)
        ELSE Step("aes_decrypt", f, <<c>>)
  /\ UNCHANGED prov

aes_decrypt ==
  /\ opc = "call" /\ pc = "aes_decrypt"
  /\ LET vec == TestOf(i).blockcipher
     IN \E a \in Answers("aes_decrypt", OutAnswers) :
          /\ Remember("aes_decrypt", a)
          /\ Step("aes_check_dec",
                  [fr EXCEPT !.lib_block =
                     Produced(a.out, Take(vec.plaintext, AES_BLOCK_SIZE))],
                  <<Call("aes_decrypt",
                         [src |-> Buffer(fr.lib_block, AES_BLOCK_SIZE, vec,
                                         "ciphertext")], 0)>>)

aes_check_dec ==
  /\ opc = "call" /\ pc = "aes_check_dec"
  /\ LET test == TestOf(i)
         vec == test.blockcipher
         r == fips_check_result(test, fr.lib_block, vec.plaintext,
                                AES_BLOCK_SIZE)
     IN Return(r.err, [fr EXCEPT !.lib_block = r.result],
               <<Checked(test, vec, fr.lib_block, "plaintext", AES_BLOCK_SIZE,
                         "decryption (library API)")>>)
  /\ UNCHANGED prov

(***************************************************************************)
(* fips_test_skcipher()                                                    *)
(***************************************************************************)
\* What the IV buffer holds after a transform that overwrote it.
Clobbered(iv, iv_size) ==
  [k \in 1..Len(iv) |-> IF k <= iv_size THEN XorFF(iv[k]) ELSE iv[k]]

\* skcipher_alloc without the WARN_ON(vec->iv_size > MAX_IV_SIZE).
skcipher_alloc_unchecked ==
  /\ opc = "call" /\ pc = "skcipher"
  /\ LET vec == TestOf(i).skcipher
         f == [fr EXCEPT !.iv = Uninit(MAX_IV_SIZE)]
     IN \E a \in Answers("crypto_alloc_skcipher",
                         AllocAnswers(vec.iv_size)) :
          /\ Remember("crypto_alloc_skcipher", a)
          /\ IF ~a.ok
             THEN Return(-ENOMEM, f, <<Acquire("tfm", FALSE)>>)
             ELSE Step("skcipher_validate",
                       [f EXCEPT !.tfm = "tfm",
                                 !.cra = [async |-> a.async,
                                          size |-> a.size]],
                       <<Acquire("tfm", TRUE)>>)

skcipher_alloc ==
  /\ opc = "call" /\ pc = "skcipher"
  /\ LET vec == TestOf(i).skcipher
         f == [fr EXCEPT !.iv = Uninit(MAX_IV_SIZE)]
     IN IF vec.iv_size > MAX_IV_SIZE
        THEN Return(-EINVAL, f, << >>) /\ UNCHANGED prov
        ELSE \E a \in Answers("crypto_alloc_skcipher",
                              AllocAnswers(vec.iv_size)) :
               /\ Remember("crypto_alloc_skcipher", a)
               /\ IF ~a.ok
                  THEN Return(-ENOMEM, f, <<Acquire("tfm", FALSE)>>)
                  ELSE Step("skcipher_validate",
                            [f EXCEPT !.tfm = "tfm",
                                      !.cra = [async |-> a.async,
                                               size |-> a.size]],
                            <<Acquire("tfm", TRUE)>>)

skcipher_validate ==
  /\ opc = "call" /\ pc = "skcipher_validate"
  /\ LET vec == TestOf(i).skcipher
         e == fips_validate_alg(fr.cra)
     IN IF e # 0
        THEN Step("skcipher_out", [fr EXCEPT !.err = e], << >>)
        ELSE IF fr.cra.size # vec.iv_size
        THEN Step("skcipher_out", [fr EXCEPT !.err = -EINVAL], << >>)
        ELSE Step("skcipher_request_alloc", [fr EXCEPT !.err = e], << >>)
  /\ UNCHANGED prov

\* skcipher_request_alloc(), kmemdup() and, if both succeed, the request set
\* up over the message buffer and the iv array.
skcipher_request_alloc ==
  /\ opc = "call" /\ pc = "skcipher_request_alloc"
  /\ LET vec == TestOf(i).skcipher
     IN \E a \in Answers("skcipher_request_alloc",
                         [req : BOOLEAN, message : BOOLEAN]) :
          /\ Remember("skcipher_request_alloc", a)
          /\ LET f == [fr EXCEPT
                         !.req = IF a.req THEN "req" ELSE NULL,
                         !.message = IF a.message THEN "message" ELSE NULL,
                         !.msgbuf = IF a.message
                                    THEN Take(vec.plaintext, vec.message_size)
                                    ELSE << >>]
                 calls == <<Acquire("req", a.req),
                            Acquire("message", a.message)>>
             IN IF f.req = NULL \/ f.message = NULL
                THEN Step("skcipher_out", [f EXCEPT !.err = -ENOMEM], calls)
                ELSE Step("skcipher_setkey", f, calls)

skcipher_setkey ==
  /\ opc = "call" /\ pc = "skcipher_setkey"
  /\ LET vec == TestOf(i).skcipher
     IN \E e \in Answers("crypto_skcipher_setkey", ErrAnswers) :
          /\ Remember("crypto_skcipher_setkey", e)
          /\ Step(IF e # 0 THEN "skcipher_out" ELSE "skcipher_encrypt",
                  [fr EXCEPT !.err = e],
                  <<Call("crypto_skcipher_setkey",
                         [key |-> "key", keylen |-> vec.key_size], e)>>)

skcipher_encrypt ==
  /\ opc = "call" /\ pc = "skcipher_encrypt"
  /\ LET vec == TestOf(i).skcipher
         iv == Memcpy(fr.iv, vec.iv, vec.iv_size)
     IN \E a \in Answers("crypto_skcipher_encrypt", TransformAnswers),
           ivw \in IvWritten :
          /\ Remember("crypto_skcipher_encrypt", a)
          /\ Step(IF a.err # 0 THEN "skcipher_out" ELSE "skcipher_check_enc",
                  [fr EXCEPT
                     !.err = a.err,
                     !.iv = IF ivw THEN Clobbered(iv, vec.iv_size) ELSE iv,
                     !.msgbuf = Produced(a.out, Take(vec.ciphertext,
                                                     vec.message_size))],
                  <<Call("crypto_skcipher_encrypt",
                         [cryptlen |-> vec.message_size,
                          iv |-> Buffer(iv, vec.iv_size, vec, "iv"),
                          src |-> Buffer(fr.msgbuf, vec.message_size, vec,
                                         "plaintext")], a.err)>>)

\* skcipher_check_enc with the `goto out' lost: the decryption follows
\* whatever the comparison returned.
skcipher_check_enc_continue ==
  /\ opc = "call" /\ pc = "skcipher_check_enc"
  /\ LET test == TestOf(i)
         vec == test.skcipher
         r == fips_check_result(test, fr.msgbuf, vec.ciphertext,
                                vec.message_size)
     IN Step("skcipher_decrypt",
             [fr EXCEPT !.msgbuf = r.result, !.err = r.err],
             <<Checked(test, vec, fr.msgbuf, "ciphertext", vec.message_size,
                       "encryption")>>)
  /\ UNCHANGED prov

skcipher_check_enc ==
  /\ opc = "call" /\ pc = "skcipher_check_enc"
  /\ LET test == TestOf(i)
         vec == test.skcipher
         r == fips_check_result(test, fr.msgbuf, vec.ciphertext,
                                vec.message_size)
     IN Step(IF r.err # 0 THEN "skcipher_out" ELSE "skcipher_decrypt",
             [fr EXCEPT !.msgbuf = r.result, !.err = r.err],
             <<Checked(test, vec, fr.msgbuf, "ciphertext", vec.message_size,
                       "encryption")>>)
  /\ UNCHANGED prov

\* skcipher_decrypt without the memcpy(iv, vec->iv, vec->iv_size) before
\* the request is set up: the buffer is handed over as the encryption left
\* it.
skcipher_decrypt_stale ==
  /\ opc = "call" /\ pc = "skcipher_decrypt"
  /\ LET vec == TestOf(i).skcipher
         iv == fr.iv
     IN \E a \in Answers("crypto_skcipher_decrypt", TransformAnswers),
           ivw \in IvWritten :
          /\ Remember("crypto_skcipher_decrypt", a)
          /\ Step(IF a.err # 0 THEN "skcipher_out" ELSE "skcipher_check_dec",
                  [fr EXCEPT
                     !.err = a.err,
                     !.iv = IF ivw THEN Clobbered(iv, vec.iv_size) ELSE iv,
                     !.msgbuf = Produced(a.out, Take(vec.plaintext,
                                                     vec.message_size))],
                  <<Call("crypto_skcipher_decrypt",
                         [cryptlen |-> vec.message_size,
                          iv |-> Buffer(iv, vec.iv_size, vec, "iv"),
                          src |-> Buffer(fr.msgbuf, vec.message_size, vec,
                                         "ciphertext")], a.err)>>)

skcipher_decrypt ==
  /\ opc = "call" /\ pc = "skcipher_decrypt"
  /\ LET vec == TestOf(i).skcipher
         iv == Memcpy(fr.iv, vec.iv, vec.iv_size)
     IN \E a \in Answers("crypto_skcipher_decrypt", TransformAnswers),
           ivw \in IvWritten :
          /\ Remember("crypto_skcipher_decrypt", a)
          /\ Step(IF a.err # 0 THEN "skcipher_out" ELSE "skcipher_check_dec",
                  [fr EXCEPT
                     !.err = a.err,
                     !.iv = IF ivw THEN Clobbered(iv, vec.iv_size) ELSE iv,
                     !.msgbuf = Produced(a.out, Take(vec.plaintext,
                                                     vec.message_size))],
                  <<Call("crypto_skcipher_decrypt",
                         [cryptlen |-> vec.message_size,
                          iv |-> Buffer(iv, vec.iv_size, vec, "iv"),
                          src |-> Buffer(fr.msgbuf, vec.message_size, vec,
                                         "ciphertext")], a.err)>>)

skcipher_check_dec ==
  /\ opc = "call" /\ pc = "skcipher_check_dec"
  /\ LET test == TestOf(i)
         vec == test.skcipher
         r == fips_check_result(test, fr.msgbuf, vec.plaintext,
                                vec.message_size)
     IN Step("skcipher_out",
             [fr EXCEPT !.msgbuf = r.result, !.err = r.err],
             <<Checked(test, vec, fr.msgbuf, "plaintext", vec.message_size,
                       "decryption")>>)
  /\ UNCHANGED prov

\* skcipher_out with the request freed twice and the message not at all.
skcipher_out_leak ==
  /\ opc = "call" /\ pc = "skcipher_out"
  /\ Return(fr.err, fr,
            <<Release("req", fr.req), Release("req", fr.req),
              Release("tfm", fr.tfm)>>)
  /\ UNCHANGED prov

\* out: kfree(message); skcipher_request_free(req);
\*      crypto_free_skcipher(tfm); return err;
skcipher_out ==
  /\ opc = "call" /\ pc = "skcipher_out"
  /\ Return(fr.err, fr,
            <<Release("message", fr.message), Release("req", fr.req),
              Release("tfm", fr.tfm)>>)
  /\ UNCHANGED prov

(***************************************************************************)
(* fips_test_aead()                                                        *)
(***************************************************************************)
\* const int tag_size = vec->ciphertext_size - vec->plaintext_size;
\* tag_size taken to be the size of the whole ciphertext.
tag_size_whole(vec) == vec.ciphertext_size

tag_size(vec) == vec.ciphertext_size - vec.plaintext_size

aead_alloc ==
  /\ opc = "call" /\ pc = "aead"
  /\ LET vec == TestOf(i).aead
         f == [fr EXCEPT !.iv = Uninit(MAX_IV_SIZE)]
     IN IF vec.iv_size > MAX_IV_SIZE
        THEN Return(-EINVAL, f, << >>) /\ UNCHANGED prov
        ELSE IF vec.ciphertext_size <= vec.plaintext_size
        THEN Return(-EINVAL, f, << >>) /\ UNCHANGED prov
        ELSE \E a \in Answers("crypto_alloc_aead",
                              AllocAnswers(vec.iv_size)) :
               /\ Remember("crypto_alloc_aead", a)
               /\ IF ~a.ok
                  THEN Return(-ENOMEM, f, <<Acquire("tfm", FALSE)>>)
                  ELSE Step("aead_validate",
                            [f EXCEPT !.tfm = "tfm",
                                      !.cra = [async |-> a.async,
                                               size |-> a.size]],
                            <<Acquire("tfm", TRUE)>>)

\* aead_validate without the comparison of crypto_aead_ivsize() with
\* vec->iv_size.
aead_validate_nosize ==
  /\ opc = "call" /\ pc = "aead_validate"
  /\ LET e == fips_validate_alg(fr.cra)
     IN IF e # 0
        THEN Step("aead_out", [fr EXCEPT !.err = e], << >>)
        ELSE Step("aead_request_alloc", [fr EXCEPT !.err = e], << >>)
  /\ UNCHANGED prov

aead_validate ==
  /\ opc = "call" /\ pc = "aead_validate"
  /\ LET vec == TestOf(i).aead
         e == fips_validate_alg(fr.cra)
     IN IF e # 0
        THEN Step("aead_out", [fr EXCEPT !.err = e], << >>)
        ELSE IF fr.cra.size # vec.iv_size
        THEN Step("aead_out", [fr EXCEPT !.err = -EINVAL], << >>)
        ELSE Step("aead_request_alloc", [fr EXCEPT !.err = e], << >>)
  /\ UNCHANGED prov

\* aead_request_alloc(), kmemdup(), kzalloc() and, if all succeed, the
\* plaintext copied in and the request set up over assoc and message.
aead_request_alloc ==
  /\ opc = "call" /\ pc = "aead_request_alloc"
  /\ LET vec == TestOf(i).aead
     IN \E a \in Answers("aead_request_alloc",
                         [req : BOOLEAN, assoc : BOOLEAN,
                          message : BOOLEAN]) :
          /\ Remember("aead_request_alloc", a)
          /\ LET f == [fr EXCEPT
                         !.req = IF a.req THEN "req" ELSE NULL,
                         !.assoc = IF a.assoc THEN "assoc" ELSE NULL,
                         !.assocbuf = IF a.assoc
                                      THEN Take(vec.assoc, vec.assoc_size)
                                      ELSE << >>,
                         !.message = IF a.message THEN "message" ELSE NULL,
                         !.msgbuf = IF a.message
                                    THEN Zeroed(vec.ciphertext_size)
                                    ELSE << >>]
                 calls == <<Acquire("req", a.req), Acquire("assoc", a.assoc),
                            Acquire("message", a.message)>>
             IN IF f.req = NULL \/ f.assoc = NULL \/ f.message = NULL
                THEN Step("aead_out", [f EXCEPT !.err = -ENOMEM], calls)
                ELSE Step("aead_setkey",
                          [f EXCEPT !.msgbuf = Memcpy(@, vec.plaintext,
                                                      vec.plaintext_size)],
                          calls)

\* aead_setkey with the `goto out' lost: an error of crypto_aead_setkey()
\* is kept in err and the function goes on.
aead_setkey_continue ==
  /\ opc = "call" /\ pc = "aead_setkey"
  /\ LET vec == TestOf(i).aead
     IN \E e \in Answers("crypto_aead_setkey", ErrAnswers) :
          /\ Remember("crypto_aead_setkey", e)
          /\ Step("aead_setauthsize", [fr EXCEPT !.err = e],
                  <<Call("crypto_aead_setkey",
                         [key |-> "key", keylen |-> vec.key_size], e)>>)

aead_setkey ==
  /\ opc = "call" /\ pc = "aead_setkey"
  /\ LET vec == TestOf(i).aead
     IN \E e \in Answers("crypto_aead_setkey", ErrAnswers) :
          /\ Remember("crypto_aead_setkey", e)
          /\ Step(IF e # 0 THEN "aead_out" ELSE "aead_setauthsize",
                  [fr EXCEPT !.err = e],
                  <<Call("crypto_aead_setkey",
                         [key |-> "key", keylen |-> vec.key_size], e)>>)

aead_setauthsize ==
  /\ opc = "call" /\ pc = "aead_setauthsize"
  /\ LET vec == TestOf(i).aead
     IN \E e \in Answers("crypto_aead_setauthsize", ErrAnswers) :
          /\ Remember("crypto_aead_setauthsize", e)
          /\ Step(IF e # 0 THEN "aead_out" ELSE "aead_encrypt",
                  [fr EXCEPT !.err = e],
                  <<Call("crypto_aead_setauthsize",
                         [authsize |-> tag_size(vec)], e)>>)

aead_encrypt ==
  /\ opc = "call" /\ pc = "aead_encrypt"
  /\ LET vec == TestOf(i).aead
         iv == Memcpy(fr.iv, vec.iv, vec.iv_size)
     IN \E a \in Answers("crypto_aead_encrypt", TransformAnswers),
           ivw \in IvWritten :
          /\ Remember("crypto_aead_encrypt", a)
          /\ Step(IF a.err # 0 THEN "aead_out" ELSE "aead_check_enc",
                  [fr EXCEPT
                     !.err = a.err,
                     !.iv = IF ivw THEN Clobbered(iv, vec.iv_size) ELSE iv,
                     !.msgbuf = Produced(a.out, Take(vec.ciphertext,
                                                     vec.ciphertext_size))],
                  <<Call("crypto_aead_encrypt",
                         [cryptlen |-> vec.plaintext_size,
                          assoclen |-> vec.assoc_size,
                          assoc |-> Buffer(fr.assocbuf, vec.assoc_size, vec,
                                           "assoc"),
                          iv |-> Buffer(iv, vec.iv_size, vec, "iv"),
                          src |-> Buffer(fr.msgbuf, vec.plaintext_size, vec,
                                         "plaintext")], a.err)>>)

aead_check_enc ==
  /\ opc = "call" /\ pc = "aead_check_enc"
  /\ LET test == TestOf(i)
         vec == test.aead
         r == fips_check_result(test, fr.msgbuf, vec.ciphertext,
                                vec.ciphertext_size)
     IN Step(IF r.err # 0 THEN "aead_out" ELSE "aead_decrypt",
             [fr EXCEPT !.msgbuf = r.result, !.err = r.err],
             <<Checked(test, vec, fr.msgbuf, "ciphertext", vec.ciphertext_size,
                       "encryption")>>)
  /\ UNCHANGED prov

aead_decrypt ==
  /\ opc = "call" /\ pc = "aead_decrypt"
  /\ LET vec == TestOf(i).aead
         iv == Memcpy(fr.iv, vec.iv, vec.iv_size)
     IN \E a \in Answers("crypto_aead_decrypt", TransformAnswers),
           ivw \in IvWritten :
          /\ Remember("crypto_aead_decrypt", a)
          /\ Step(IF a.err # 0 THEN "aead_out" ELSE "aead_check_dec",
                  [fr EXCEPT
                     !.err = a.err,
                     !.iv = IF ivw THEN Clobbered(iv, vec.iv_size) ELSE iv,
                     !.msgbuf =
                        Memcpy(@, Produced(a.out, Take(vec.plaintext,
                                                       vec.plaintext_size)),
                               vec.plaintext_size)],
                  <<Call("crypto_aead_decrypt",
                         [cryptlen |-> vec.ciphertext_size,
                          assoclen |-> vec.assoc_size,
                          assoc |-> Buffer(fr.assocbuf, vec.assoc_size, vec,
                                           "assoc"),
                          iv |-> Buffer(iv, vec.iv_size, vec, "iv"),
                          src |-> Buffer(fr.msgbuf, vec.ciphertext_size, vec,
                                         "ciphertext")], a.err)>>)

aead_check_dec ==
  /\ opc = "call" /\ pc = "aead_check_dec"
  /\ LET test == TestOf(i)
         vec == test.aead
         r == fips_check_result(test, fr.msgbuf, vec.plaintext,
                                vec.plaintext_size)
     IN Step("aead_out",
             [fr EXCEPT !.msgbuf = r.result, !.err = r.err],
             <<Checked(test, vec, fr.msgbuf, "plaintext", vec.plaintext_size,
                       "decryption")>>)
  /\ UNCHANGED prov

\* out: kfree(message); kfree(assoc); aead_request_free(req);
\*      crypto_free_aead(tfm); return err;
aead_out ==
  /\ opc = "call" /\ pc = "aead_out"
  /\ Return(fr.err, fr,
            <<Release("message", fr.message), Release("assoc", fr.assoc),
              Release("req", fr.req), Release("tfm", fr.tfm)>>)
  /\ UNCHANGED prov

(***************************************************************************)
(* fips_test_hash()                                                        *)
(***************************************************************************)
hash_alloc ==
  /\ opc = "call" /\ pc = "hash"
  /\ LET vec == TestOf(i).hash
         f == [fr EXCEPT !.digest = Uninit(HASH_MAX_DIGESTSIZE)]
     IN IF vec.digest_size > HASH_MAX_DIGESTSIZE
        THEN Return(-EINVAL, f, << >>) /\ UNCHANGED prov
        ELSE \E a \in Answers("crypto_alloc_shash",
                              AllocAnswers(vec.digest_size)) :
               /\ Remember("crypto_alloc_shash", a)
               /\ IF ~a.ok
                  THEN Return(-ENOMEM, f, <<Acquire("tfm", FALSE)>>)
                  ELSE Step("hash_validate",
                            [f EXCEPT !.tfm = "tfm",
                                      !.cra = [async |-> a.async,
                                               size |-> a.size]],
                            <<Acquire("tfm", TRUE)>>)

\* hash_validate with the `if (vec->key)' block lost: no key is ever set.
hash_validate_nokey ==
  /\ opc = "call" /\ pc = "hash_validate"
  /\ LET vec == TestOf(i).hash
         e == fips_validate_alg(fr.cra)
     IN IF e # 0
        THEN Step("hash_out", [fr EXCEPT !.err = e], << >>)
        ELSE IF fr.cra.size # vec.digest_size
        THEN Step("hash_out", [fr EXCEPT !.err = -EINVAL], << >>)
        ELSE Step("hash_digest", [fr EXCEPT !.err = e], << >>)
  /\ UNCHANGED prov

\* fips_validate_alg(), the digest size, and `if (vec->key)'.
hash_validate ==
  /\ opc = "call" /\ pc = "hash_validate"
  /\ LET vec == TestOf(i).hash
         e == fips_validate_alg(fr.cra)
     IN IF e # 0
        THEN Step("hash_out", [fr EXCEPT !.err = e], << >>)
        ELSE IF fr.cra.size # vec.digest_size
        THEN Step("hash_out", [fr EXCEPT !.err = -EINVAL], << >>)
        ELSE Step(IF vec.key # NoData THEN "hash_setkey" ELSE "hash_digest",
                  [fr EXCEPT !.err = e], << >>)
  /\ UNCHANGED prov

hash_setkey ==
  /\ opc = "call" /\ pc = "hash_setkey"
  /\ LET vec == TestOf(i).hash
     IN \E e \in Answers("crypto_shash_setkey", ErrAnswers) :
          /\ Remember("crypto_shash_setkey", e)
          /\ Step(IF e # 0 THEN "hash_out" ELSE "hash_digest",
                  [fr EXCEPT !.err = e],
                  <<Call("crypto_shash_setkey",
                         [key |-> "key", keylen |-> vec.key_size], e)>>)

hash_digest ==
  /\ opc = "call" /\ pc = "hash_digest"
  /\ LET vec == TestOf(i).hash
     IN \E a \in Answers("crypto_shash_tfm_digest", TransformAnswers) :
          /\ Remember("crypto_shash_tfm_digest", a)
          /\ Step(IF a.err # 0 THEN "hash_out" ELSE "hash_check",
                  [fr EXCEPT
                     !.err = a.err,
                     !.digest = Memcpy(@, Produced(a.out,
                                                   Take(vec.digest,
                                                        vec.digest_size)),
                                       vec.digest_size)],
                  <<Call("crypto_shash_tfm_digest",
                         [data |-> "message", len |-> vec.message_size],
                         a.err)>>)

\* hash_check with the value of fips_check_result() dropped: err stays 0.
hash_check_ignored ==
  /\ opc = "call" /\ pc = "hash_check"
  /\ LET test == TestOf(i)
         vec == test.hash
         r == fips_check_result(test, fr.digest, vec.digest, vec.digest_size)
     IN Step("hash_out", [fr EXCEPT !.digest = r.result],
             <<Checked(test, vec, fr.digest, "digest", vec.digest_size,
                       "digest")>>)
  /\ UNCHANGED prov

hash_check ==
  /\ opc = "call" /\ pc = "hash_check"
  /\ LET test == TestOf(i)
         vec == test.hash
         r == fips_check_result(test, fr.digest, vec.digest, vec.digest_size)
     IN Step("hash_out", [fr EXCEPT !.digest = r.result, !.err = r.err],
             <<Checked(test, vec, fr.digest, "digest", vec.digest_size,
                       "digest")>>)
  /\ UNCHANGED prov

\* out: crypto_free_shash(tfm); return err;
hash_out ==
  /\ opc = "call" /\ pc = "hash_out"
  /\ Return(fr.err, fr, <<Release("tfm", fr.tfm)>>)
  /\ UNCHANGED prov

(***************************************************************************)
(* fips_test_sha256_library()                                              *)
(***************************************************************************)
sha256_library_digest ==
  /\ opc = "call" /\ pc = "sha256_library"
  /\ LET vec == TestOf(i).hash
         f == [fr EXCEPT !.digest = Uninit(SHA256_DIGEST_SIZE)]
     IN IF vec.digest_size # SHA256_DIGEST_SIZE
        THEN Return(-EINVAL, f, << >>) /\ UNCHANGED prov
        ELSE \E a \in Answers("sha256", OutAnswers) :
               /\ Remember("sha256", a)
               /\ Step("sha256_library_check",
                       [f EXCEPT !.digest =
                          Produced(a.out, Take(vec.digest,
                                               SHA256_DIGEST_SIZE))],
                       <<Call("sha256",
                              [data |-> "message",
                               len |-> vec.message_size], 0)>>)

sha256_library_check ==
  /\ opc = "call" /\ pc = "sha256_library_check"
  /\ LET test == TestOf(i)
         vec == test.hash
         r == fips_check_result(test, fr.digest, vec.digest, vec.digest_size)
     IN Return(r.err, [fr EXCEPT !.digest = r.result],
               <<Checked(test, vec, fr.digest, "digest", vec.digest_size,
                         "digest (library API)")>>)
  /\ UNCHANGED prov

(***************************************************************************)
(* fips_test_drbg()                                                        *)
(***************************************************************************)
\* crypto_alloc_rng(): an rng algorithm reports no size the test looks at.
RngAllocAnswers == {a \in AllocAnswers(0) : a.size = 0}

\* What a correct DRBG returns for the first of the two requests; the vector
\* does not record it.
FirstOutput(vec) == [k \in 1..vec.out_size |-> (k * 7) % 256]

drbg_alloc ==
  /\ opc = "call" /\ pc = "drbg"
  /\ \E a \in Answers("crypto_alloc_rng", RngAllocAnswers) :
       /\ Remember("crypto_alloc_rng", a)
       /\ IF ~a.ok
          THEN Return(-ENOMEM, fr, <<Acquire("rng", FALSE)>>)
          ELSE Step("drbg_validate",
                    [fr EXCEPT !.rng = "rng",
                               !.cra = [async |-> a.async, size |-> a.size]],
                    <<Acquire("rng", TRUE)>>)

\* fips_validate_alg() and output = kzalloc(vec->out_size).
drbg_validate ==
  /\ opc = "call" /\ pc = "drbg_validate"
  /\ LET vec == TestOf(i).drbg
         e == fips_validate_alg(fr.cra)
     IN IF e # 0
        THEN Step("drbg_out", [fr EXCEPT !.err = e], << >>) /\ UNCHANGED prov
        ELSE \E ok \in Answers("kzalloc", BOOLEAN) :
               /\ Remember("kzalloc", ok)
               /\ IF ~ok
                  THEN Step("drbg_out", [fr EXCEPT !.err = -ENOMEM],
                            <<Acquire("output", FALSE)>>)
                  ELSE Step("drbg_reset",
                            [fr EXCEPT !.err = e, !.output = "output",
                                       !.outbuf = Zeroed(vec.out_size)],
                            <<Acquire("output", TRUE)>>)

drbg_reset ==
  /\ opc = "call" /\ pc = "drbg_reset"
  /\ LET vec == TestOf(i).drbg
     IN \E e \in Answers("crypto_drbg_reset_test", ErrAnswers) :
          /\ Remember("crypto_drbg_reset_test", e)
          /\ Step(IF e # 0 THEN "drbg_out" ELSE "drbg_generate_a",
                  [fr EXCEPT !.err = e],
                  <<Call("crypto_drbg_reset_test",
                         [pers |-> "pers", pers_len |-> vec.pers_size,
                          testentropy |-> "entropy",
                          testentropy_len |-> vec.entropy_size], e)>>)

\* One request for out_size bytes with additional data vec->addtl and, when
\* the vector has entpr_size != 0, test entropy vec->entpr.
Generate(vec, addtl, entpr, err) ==
  IF vec.entpr_size # 0
  THEN Call("crypto_drbg_get_bytes_addtl_test",
            [len |-> vec.out_size,
             addtl |-> addtl, addtl_len |-> vec.add_size,
             testentropy |-> entpr, testentropy_len |-> vec.entpr_size],
            err)
  ELSE Call("crypto_drbg_get_bytes_addtl",
            [len |-> vec.out_size,
             addtl |-> addtl, addtl_len |-> vec.add_size], err)

\* drbg_generate_a with the `goto out' lost: the second request follows
\* whatever the first returned.
drbg_generate_a_continue ==
  /\ opc = "call" /\ pc = "drbg_generate_a"
  /\ LET vec == TestOf(i).drbg
     IN \E a \in Answers("get_bytes (try 1)", TransformAnswers) :
          /\ Remember("get_bytes (try 1)", a)
          /\ Step("drbg_generate_b",
                  [fr EXCEPT !.err = a.err,
                             !.outbuf = Produced(a.out, FirstOutput(vec))],
                  <<Generate(vec, "add_a", "entpr_a", a.err)>>)

drbg_generate_a ==
  /\ opc = "call" /\ pc = "drbg_generate_a"
  /\ LET vec == TestOf(i).drbg
     IN \E a \in Answers("get_bytes (try 1)", TransformAnswers) :
          /\ Remember("get_bytes (try 1)", a)
          /\ Step(IF a.err # 0 THEN "drbg_out" ELSE "drbg_generate_b",
                  [fr EXCEPT !.err = a.err,
                             !.outbuf = Produced(a.out, FirstOutput(vec))],
                  <<Generate(vec, "add_a", "entpr_a", a.err)>>)

drbg_generate_b ==
  /\ opc = "call" /\ pc = "drbg_generate_b"
  /\ LET vec == TestOf(i).drbg
     IN \E a \in Answers("get_bytes (try 2)", TransformAnswers) :
          /\ Remember("get_bytes (try 2)", a)
          /\ Step(IF a.err # 0 THEN "drbg_out" ELSE "drbg_check",
                  [fr EXCEPT !.err = a.err,
                             !.outbuf = Produced(a.out,
                                                 Take(vec.output,
                                                      vec.out_size))],
                  <<Generate(vec, "add_b", "entpr_b", a.err)>>)

drbg_check ==
  /\ opc = "call" /\ pc = "drbg_check"
  /\ LET test == TestOf(i)
         vec == test.drbg
         r == fips_check_result(test, fr.outbuf, vec.output, vec.out_size)
     IN Step("drbg_out", [fr EXCEPT !.outbuf = r.result, !.err = r.err],
             <<Checked(test, vec, fr.outbuf, "output", vec.out_size,
                       "get_bytes")>>)
  /\ UNCHANGED prov

\* out: kfree(output); crypto_free_rng(rng); return err;
drbg_out ==
  /\ opc = "call" /\ pc = "drbg_out"
  /\ Return(fr.err, fr,
            <<Release("output", fr.output), Release("rng", fr.rng)>>)
  /\ UNCHANGED prov

(***************************************************************************)
(* fips140_run_selftests()                                                 *)
(***************************************************************************)
\* EntryOf with fips_test_hash bound to the code of fips_test_skcipher: a
\* hash entry's vector is read as a struct skcipher_testvec.
EntryOf_punned(func) ==
  CASE func = "fips_test_aes" -> "aes"
    [] func = "fips_test_skcipher" -> "skcipher"
    [] func = "fips_test_aead" -> "aead"
    [] func = "fips_test_hash" -> "skcipher"
    [] func = "fips_test_sha256_library" -> "sha256_library"
    [] func = "fips_test_drbg" -> "drbg"

\* test->func, as the first statement of the function it points to.
EntryOf(func) ==
  CASE func = "fips_test_aes" -> "aes"
    [] func = "fips_test_skcipher" -> "skcipher"
    [] func = "fips_test_aead" -> "aead"
    [] func = "fips_test_hash" -> "hash"
    [] func = "fips_test_sha256_library" -> "sha256_library"
    [] func = "fips_test_drbg" -> "drbg"

\* run_selftests_begin with the setting used up by the run that reads it.
run_selftests_begin_consume ==
  /\ opc = "idle" /\ run < MaxRuns
  /\ run' = run + 1
  /\ i' = 1
  /\ opc' = "loop"
  /\ hist' = [hist EXCEPT ![run + 1] =
                [broken |-> fips140_broken_alg, order |-> << >>,
                 ret |-> "none", alg |-> NULL]]
  /\ fips140_broken_alg' = NULL
  /\ UNCHANGED <<pc, fr, trace, prov>>

\* The call of fips140_run_selftests(): i = 0.
run_selftests_begin ==
  /\ opc = "idle" /\ run < MaxRuns
  /\ run' = run + 1
  /\ i' = 1
  /\ opc' = "loop"
  /\ hist' = [hist EXCEPT ![run + 1] =
                [broken |-> fips140_broken_alg, order |-> << >>,
                 ret |-> "none", alg |-> NULL]]
  /\ UNCHANGED <<fips140_broken_alg, pc, fr, trace, prov>>

\* InLoop with the bound off by one: the last entry is never called.
InLoop_short(n) == n < NumTests

\* The loop condition i < ARRAY_SIZE(fips140_selftests), for the 1-based i.
InLoop(n) == n <= NumTests

\* err = test->func(test);
run_selftests_call ==
  /\ opc = "loop" /\ InLoop(i)
  /\ opc' = "call"
  /\ pc' = EntryOf(fips140_selftests[i].func)
  /\ fr' = FreshFrame
  /\ trace' = [trace EXCEPT ![run][i] =
                 Append(@, [kind |-> "invoke",
                            func |-> fips140_selftests[i].func])]
  /\ hist' = [hist EXCEPT ![run].order = Append(@, i)]
  /\ UNCHANGED <<fips140_broken_alg, run, i, prov>>

\* NextAfter with a panic() in place of `return false': the engine halts
\* the machine itself and never returns to its caller.
NextAfter_panic(e) == IF e # 0 THEN "panic" ELSE "loop"

\* NextAfter with the `return false' lost: the loop goes on after an error.
NextAfter_continue(e) == "loop"

\* What follows the return of test->func(): `return false' or i++.
NextAfter(e) == IF e # 0 THEN "idle" ELSE "loop"

run_selftests_ret ==
  /\ opc = "call" /\ pc = "return"
  /\ opc' = NextAfter(fr.err)
  /\ IF opc' = "idle"
     THEN /\ hist' = [hist EXCEPT ![run].ret = "false",
                                  ![run].alg = TestOf(i).alg]
          /\ i' = i
     ELSE /\ i' = i + 1
          /\ hist' = hist
  /\ pc' = "none"
  /\ fr' = FreshFrame
  /\ UNCHANGED <<fips140_broken_alg, run, trace, prov>>

\* The loop is over: return true.
run_selftests_passed ==
  /\ opc = "loop" /\ ~InLoop(i)
  /\ opc' = "idle"
  /\ hist' = [hist EXCEPT ![run].ret = "true"]
  /\ UNCHANGED <<fips140_broken_alg, run, i, pc, fr, trace, prov>>

(***************************************************************************)
(* The module parameter is written from outside, between two runs.  The    *)
(* harness that injected an error clears the parameter again.              *)
(***************************************************************************)
clear_broken_alg ==
  /\ opc = "idle" /\ run >= 1 /\ run < MaxRuns
  /\ fips140_broken_alg # NULL
  /\ fips140_broken_alg' = NULL
  /\ UNCHANGED <<run, i, opc, hist, pc, fr, trace, prov>>

Next ==
  \/ run_selftests_begin \/ run_selftests_call \/ run_selftests_ret
  \/ run_selftests_passed \/ clear_broken_alg
  \/ aes_blockcipher \/ blockcipher_alloc \/ blockcipher_validate
  \/ blockcipher_setkey \/ blockcipher_encrypt \/ blockcipher_check_enc
  \/ blockcipher_decrypt \/ blockcipher_check_dec \/ blockcipher_out
  \/ aes_expandkey \/ aes_encrypt \/ aes_check_enc \/ aes_decrypt
  \/ aes_check_dec
  \/ skcipher_alloc \/ skcipher_validate \/ skcipher_request_alloc
  \/ skcipher_setkey \/ skcipher_encrypt \/ skcipher_check_enc
  \/ skcipher_decrypt \/ skcipher_check_dec \/ skcipher_out
  \/ aead_alloc \/ aead_validate \/ aead_request_alloc \/ aead_setkey
  \/ aead_setauthsize \/ aead_encrypt \/ aead_check_enc \/ aead_decrypt
  \/ aead_check_dec \/ aead_out
  \/ hash_alloc \/ hash_validate \/ hash_setkey \/ hash_digest
  \/ hash_check \/ hash_out
  \/ sha256_library_digest \/ sha256_library_check
  \/ drbg_alloc \/ drbg_validate \/ drbg_reset \/ drbg_generate_a
  \/ drbg_generate_b \/ drbg_check \/ drbg_out

\* A call of fips140_run_selftests() is under way.
Running == opc # "idle"

Spec == Init /\ [][Next]_vars

(***************************************************************************)
(* The test functions take any struct fips_test.  In VecSpec the first     *)
(* call of the engine hands a test function either the registry's vector   *)
(* or one of OtherTests.                                                   *)
(***************************************************************************)
\* err = func(&OtherTests[n]) for an n that is entry i's algorithm.
other_call ==
  /\ opc = "loop" /\ InLoop(i)
  /\ \E n \in DOMAIN OtherTests :
       /\ OtherTests[n].alg = fips140_selftests[i].alg
       /\ OtherTests[n].func = fips140_selftests[i].func
       /\ fr' = [FreshFrame EXCEPT !.test = n]
       /\ pc' = EntryOf(OtherTests[n].func)
       /\ trace' = [trace EXCEPT ![run][i] =
                      Append(@, [kind |-> "invoke",
                                 func |-> OtherTests[n].func])]
  /\ opc' = "call"
  /\ hist' = [hist EXCEPT ![run].order = Append(@, i)]
  /\ UNCHANGED <<fips140_broken_alg, run, i, prov>>

VecCall ==
  \/ run = 0 /\ run_selftests_begin
  \/ Running /\ Next
  \/ other_call
  \/ clear_broken_alg

VecSpec == Init /\ [][VecCall]_vars

(***************************************************************************)
(* Reading the call log.                                                   *)
(***************************************************************************)
Tests == 1..NumTests

\* Entry k's test function has returned in run r, and what it returned.
Finished(r, k) ==
  /\ trace[r][k] # << >>
  /\ trace[r][k][Len(trace[r][k])].kind = "return"

Outcome(r, k) == trace[r][k][Len(trace[r][k])].err

\* Run r has returned to its caller.
Over(r) == hist[r].ret # "none"

\* How many times entry k's test function was called in run r.
Invocations(r, k) ==
  Cardinality({n \in 1..Len(trace[r][k]) : trace[r][k][n].kind = "invoke"})

(***************************************************************************)
(* C1  Short-circuit.  If the test function of entry k returns an error in *)
(* a run, no test function of an entry after k is called in that run, the *)
(* run does not return true, and once it has returned it has returned      *)
(* false and the algorithm it reported is entry k's.                       *)
(***************************************************************************)
C1_ShortCircuit ==
  \A r \in Runs, k \in Tests :
    (Finished(r, k) /\ Outcome(r, k) # 0) =>
      /\ \A j \in Tests : j > k => trace[r][j] = << >>
      /\ hist[r].order = [n \in 1..k |-> n]
      /\ hist[r].ret # "true"
      /\ (r < run \/ opc = "idle") =>
           (hist[r].ret = "false" /\ hist[r].alg = fips140_selftests[k].alg)

\* A run that failed at an entry in the middle of the registry has returned.
C1_Witness ==
  \E r \in Runs, k \in Tests :
    /\ k > 1 /\ k < NumTests
    /\ Finished(r, k) /\ Outcome(r, k) # 0
    /\ hist[r].ret = "false"
    /\ hist[r].alg = fips140_selftests[k].alg

(***************************************************************************)
(* C2  A run returns true if and only if the test function of every entry  *)
(* returned 0; then every entry was called exactly once, in registry       *)
(* order.  In every run the entries called so far are 1, 2, ..., m in this *)
(* order, each calling the function the entry names, so the order is the   *)
(* same in every run.                                                      *)
(***************************************************************************)
C2_TrueIffAllPass ==
  \A r \in Runs :
    /\ Over(r) =>
         (hist[r].ret = "true" <=>
            \A k \in Tests : Finished(r, k) /\ Outcome(r, k) = 0)
    /\ hist[r].ret = "true" =>
         /\ hist[r].order = [n \in Tests |-> n]
         /\ \A k \in Tests : Invocations(r, k) = 1
    /\ hist[r].order = [n \in 1..Len(hist[r].order) |-> n]
    /\ \A k \in Tests :
         trace[r][k] # << >> =>
           /\ trace[r][k][1].kind = "invoke"
           /\ trace[r][k][1].func = fips140_selftests[k].func
           /\ Invocations(r, k) = 1

\* Two runs have returned true.
C2_Witness ==
  /\ MaxRuns >= 2
  /\ hist[1].ret = "true" /\ hist[2].ret = "true"
  /\ hist[1].order = hist[2].order
  /\ Len(hist[2].order) = NumTests

\* The test vector of a registry entry (the member of the union its test
\* function reads).
VecOf(test) ==
  CASE test.func = "fips_test_aes" -> test.blockcipher
    [] test.func = "fips_test_skcipher" -> test.skcipher
    [] test.func = "fips_test_aead" -> test.aead
    [] test.func = "fips_test_drbg" -> test.drbg
    [] OTHER -> test.hash

\* The bytes a logged buffer b of entry k held.
BytesOf(k, b) ==
  LET ref == VecOf(fips140_selftests[k])[b.of]
  IN [j \in 1..b.len |->
        IF \E d \in b.diff : d[1] = j
        THEN (CHOOSE d \in b.diff : d[1] = j)[2]
        ELSE ref[j]]

\* The first n bytes of field f of entry k's test vector.
Expected(k, f, n) == Take(VecOf(fips140_selftests[k])[f], n)

\* The entries of entry k's log in run r that are comparisons.
Checks(r, k) ==
  {n \in 1..Len(trace[r][k]) : trace[r][k][n].kind = "check"}

\* The run that is executing or returned last, and the entry whose test
\* function is executing or returned last.  A log is complete once its
\* function has returned, so what holds of the log of this entry in every
\* state holds of every log.
NowRuns == {run} \cap Runs
NowTests == {i} \cap Tests

\* Run r runs with error injection requested for entry k.
Targeted(r, k) == hist[r].broken = fips140_selftests[k].alg

(***************************************************************************)
(* C3  Error injection (in a build with                                    *)
(* CONFIG_CRYPTO_FIPS140_MOD_ERROR_INJECTION).                             *)
(***************************************************************************)
\* C3 as claimed: when the setting names entry k's algorithm, entry k's
\* test function returns an error, whatever the crypto API produced.
C3_FailsWhateverProduced ==
  \A r \in NowRuns, k \in NowTests :
    (Targeted(r, k) /\ Finished(r, k)) => Outcome(r, k) # 0

\* C3 as amended: when the setting names entry k's algorithm, every
\* comparison entry k's test function makes is made on the result with byte
\* 0 inverted, and it passes exactly if the result it was given is the
\* expected bytes with byte 0 inverted; a comparison that does not pass makes
\* the test function return an error.  So the test function returns an error
\* unless every result it compared was of that form, and it does whenever
\* the result of its first comparison was the expected bytes.
C3_InjectionObservable ==
  \A r \in NowRuns, k \in NowTests :
    Targeted(r, k) =>
      /\ \A n \in Checks(r, k) :
           LET c == trace[r][k][n]
               given == BytesOf(k, c.given)
               inverted == [Expected(k, c.expected, c.size)
                              EXCEPT ![1] = XorFF(@)]
           IN /\ BytesOf(k, c.actual) = [given EXCEPT ![1] = XorFF(@)]
              /\ c.err = 0 <=> given = inverted
              /\ c.err # 0 => c.err = -EBADMSG
              /\ (c.err # 0 /\ Finished(r, k)) => Outcome(r, k) = c.err
              /\ given = Expected(k, c.expected, c.size) => c.err # 0
      /\ (Finished(r, k) /\ Outcome(r, k) = 0) => Checks(r, k) # {}

\* A correct result was compared under error injection and the test
\* function returned -EBADMSG.
C3_Witness ==
  \E r \in NowRuns, k \in NowTests :
    /\ Targeted(r, k) /\ Finished(r, k) /\ Outcome(r, k) = -EBADMSG
    /\ \E n \in Checks(r, k) :
         /\ trace[r][k][n].given.diff = {}
         /\ trace[r][k][n].err = -EBADMSG

\* s is an initial part of t.
IsPrefix(s, t) == Len(s) <= Len(t) /\ s = SubSeq(t, 1, Len(s))

(***************************************************************************)
(* C4  Error injection is targeted.  For an entry k and a run whose        *)
(* setting names an algorithm other than entry k's, the log of entry k's   *)
(* test function (the calls it makes with their arguments, the bytes it    *)
(* compares, what it acquires and releases, and the value it returns) is   *)
(* the log of a run with no setting.                                       *)
(***************************************************************************)
C4_InjectionTargeted ==
  \A r2 \in NowRuns, k \in NowTests :
    /\ \A r1 \in Runs :
         (/\ hist[r1].broken # NULL /\ ~Targeted(r1, k)
          /\ hist[r2].broken = NULL
          /\ Finished(r1, k)) =>
           /\ IsPrefix(trace[r2][k], trace[r1][k])
           /\ Finished(r2, k) =>
                /\ trace[r2][k] = trace[r1][k]
                /\ Outcome(r2, k) = Outcome(r1, k)
    /\ ~Targeted(r2, k) =>
         \A n \in Checks(r2, k) :
           trace[r2][k][n].actual = trace[r2][k][n].given

\* An entry has made a comparison and returned in a run whose setting names
\* another registered algorithm and in a run with no setting.
C4_Witness ==
  \E r1 \in Runs, r2 \in NowRuns, k \in NowTests :
    /\ hist[r1].broken \in RegistryAlgs /\ ~Targeted(r1, k)
    /\ hist[r2].broken = NULL
    /\ Finished(r1, k) /\ Finished(r2, k)
    /\ Checks(r1, k) # {} /\ Checks(r2, k) # {}

(***************************************************************************)
(* C5  No leak, no double release.  At every point of a test function, of  *)
(* each resource (instance, request, scratch buffer) no more has been      *)
(* released than was acquired and at most one was acquired; a release      *)
(* function is handed a non-NULL pointer only for a resource that was      *)
(* acquired; when the function has returned, what was acquired has been    *)
(* released.                                                               *)
(***************************************************************************)
Resources == {"tfm", "req", "message", "assoc", "output", "rng"}

\* How many of the first n entries of log are successful `kind' operations
\* (acquire or release) on resource res.
Count(log, n, kind, res) ==
  Cardinality({m \in 1..n : /\ log[m].kind = kind
                            /\ log[m].res = res /\ log[m].ok})

C5_NoLeakNoDoubleRelease ==
  \A r \in NowRuns, k \in NowTests, res \in Resources :
    LET log == trace[r][k]
    IN /\ \A n \in 1..Len(log) :
            /\ Count(log, n, "release", res) <= Count(log, n, "acquire", res)
            /\ Count(log, n, "acquire", res) <= 1
       /\ Finished(r, k) =>
            Count(log, Len(log), "release", res)
              = Count(log, Len(log), "acquire", res)

\* A test function returned after it got its instance and request but not
\* its scratch buffer.
C5_Witness ==
  \E r \in NowRuns, k \in NowTests :
    /\ Finished(r, k) /\ Outcome(r, k) = -ENOMEM
    /\ Count(trace[r][k], Len(trace[r][k]), "release", "req") = 1
    /\ Count(trace[r][k], Len(trace[r][k]), "release", "tfm") = 1
    /\ Count(trace[r][k], Len(trace[r][k]), "acquire", "message") = 0

(***************************************************************************)
(* C6  Asynchronous implementations are rejected.  If the instance a test  *)
(* function acquired is of an algorithm with CRYPTO_ALG_ASYNC set, the     *)
(* function makes no call on the instance (nor any other call or           *)
(* comparison) and returns -EINVAL, and the run returns false naming the   *)
(* entry's algorithm.                                                      *)
(***************************************************************************)
\* The allocation function entry k's test function calls.
AllocOf(k) ==
  LET func == fips140_selftests[k].func
  IN CASE func = "fips_test_aes" -> "crypto_alloc_cipher"
       [] func = "fips_test_skcipher" -> "crypto_alloc_skcipher"
       [] func = "fips_test_aead" -> "crypto_alloc_aead"
       [] func = "fips_test_drbg" -> "crypto_alloc_rng"
       [] OTHER -> "crypto_alloc_shash"

\* Entry k's test function has acquired an instance in run r and the
\* instance is asynchronous.
AcquiredAsync(r, k) ==
  /\ <<k, AllocOf(k)>> \in DOMAIN prov
  /\ prov[<<k, AllocOf(k)>>].ok /\ prov[<<k, AllocOf(k)>>].async
  /\ \E n \in 1..Len(trace[r][k]) :
       /\ trace[r][k][n].kind = "acquire"
       /\ trace[r][k][n].res \in {"tfm", "rng"} /\ trace[r][k][n].ok

C6_AsyncRejected ==
  \A r \in NowRuns, k \in NowTests :
    AcquiredAsync(r, k) =>
      /\ \A n \in 1..Len(trace[r][k]) :
           trace[r][k][n].kind \notin {"call", "check"}
      /\ Finished(r, k) => Outcome(r, k) = -EINVAL
      /\ hist[r].ret # "true"
      /\ Over(r) =>
           (hist[r].ret = "false" /\ hist[r].alg = fips140_selftests[k].alg)

\* A run has returned false because an instance was asynchronous.
C6_Witness ==
  \E r \in NowRuns, k \in NowTests :
    /\ AcquiredAsync(r, k) /\ Finished(r, k) /\ Over(r)
    /\ k > 1 /\ hist[r].alg = fips140_selftests[k].alg

(***************************************************************************)
(* C7  Round trip of fips_test_aes() and fips_test_skcipher().             *)
(***************************************************************************)
CipherTests ==
  {k \in Tests :
     fips140_selftests[k].func \in {"fips_test_aes", "fips_test_skcipher"}}

DecryptOps ==
  {"crypto_cipher_decrypt_one", "aes_decrypt", "crypto_skcipher_decrypt"}

\* The entries of entry k's log in run r that compare with field f.
ChecksOf(r, k, f) == {n \in Checks(r, k) : trace[r][k][n].expected = f}

\* The entries of entry k's log in run r that are decryptions.
Decrypts(r, k) ==
  {n \in 1..Len(trace[r][k]) :
     trace[r][k][n].kind = "call" /\ trace[r][k][n].op \in DecryptOps}

AeadTests == {k \in Tests : fips140_selftests[k].func = "fips_test_aead"}

\* The entries of entry k's log in run r that are calls of op.
CallsOf(r, k, op) ==
  {n \in 1..Len(trace[r][k]) :
     trace[r][k][n].kind = "call" /\ trace[r][k][n].op = op}

C8_AeadSizes ==
  \A r \in NowRuns, k \in NowTests \cap AeadTests :
    LET log == trace[r][k]
        P == fips140_selftests[k].aead.plaintext_size
        C == fips140_selftests[k].aead.ciphertext_size
    IN /\ \A n \in CallsOf(r, k, "crypto_aead_setauthsize") :
            log[n].args.authsize = C - P
       /\ \A n \in CallsOf(r, k, "crypto_aead_encrypt") :
            /\ log[n].args.cryptlen = P
            /\ BytesOf(k, log[n].args.src) = Expected(k, "plaintext", P)
            /\ \E m \in CallsOf(r, k, "crypto_aead_setauthsize") :
                 m < n /\ log[m].err = 0
       /\ \A n \in ChecksOf(r, k, "ciphertext") :
            /\ log[n].size = C
            /\ n - 1 \in CallsOf(r, k, "crypto_aead_encrypt")
       /\ \A n \in CallsOf(r, k, "crypto_aead_decrypt") :
            /\ log[n].args.cryptlen = C
            /\ log[n].args.src.len = C
            /\ n - 1 \in ChecksOf(r, k, "ciphertext")
            /\ log[n - 1].err = 0
       /\ \A n \in ChecksOf(r, k, "plaintext") :
            /\ log[n].size = P
            /\ n - 1 \in CallsOf(r, k, "crypto_aead_decrypt")
       /\ (Finished(r, k) /\ Outcome(r, k) = 0) =>
            /\ Cardinality(ChecksOf(r, k, "ciphertext")) = 1
            /\ Cardinality(ChecksOf(r, k, "plaintext")) = 1
            /\ \A n \in Checks(r, k) : log[n].err = 0

\* fips_test_aead() has returned 0 for a vector whose ciphertext is longer
\* than its plaintext by a tag.
C8_Witness ==
  \E r \in NowRuns, k \in NowTests \cap AeadTests :
    /\ Finished(r, k) /\ Outcome(r, k) = 0
    /\ CallsOf(r, k, "crypto_aead_decrypt") # {}
    /\ fips140_selftests[k].aead.ciphertext_size
         = fips140_selftests[k].aead.plaintext_size + 16

(***************************************************************************)
(* C9  fips_test_drbg().  The calls and comparisons it makes are, in this  *)
(* order: one crypto_drbg_reset_test() with the vector's entropy and       *)
(* personalization string; a request with add_a and a request with add_b   *)
(* (each with its test entropy entpr_a, entpr_b exactly if entpr_size is   *)
(* not 0), on the one instance it acquired; one comparison, of the output  *)
(* of the second request with the vector's output.  Each is made only if   *)
(* all before it succeeded, and the function returns the first error.      *)
(***************************************************************************)
DrbgTests == {k \in Tests : fips140_selftests[k].func = "fips_test_drbg"}

\* The calls and comparisons of entry k's log in run r, in order.
Operations(r, k) ==
  LET IsOperation(c) == c.kind \in {"call", "check"}
  IN SelectSeq(trace[r][k], IsOperation)

\* c is a request for out_size bytes with additional data vec->addtl and,
\* exactly if entpr_size is not 0, test entropy vec->entpr.
IsRequest(c, vec, addtl, entpr) ==
  /\ c.kind = "call"
  /\ c.args.len = vec.out_size
  /\ c.args.addtl = addtl /\ c.args.addtl_len = vec.add_size
  /\ IF vec.entpr_size # 0
     THEN /\ c.op = "crypto_drbg_get_bytes_addtl_test"
          /\ c.args.testentropy = entpr
          /\ c.args.testentropy_len = vec.entpr_size
     ELSE /\ c.op = "crypto_drbg_get_bytes_addtl"
          /\ DOMAIN c.args = {"len", "addtl", "addtl_len"}

C9_DrbgProtocol ==
  \A r \in NowRuns, k \in NowTests \cap DrbgTests :
    LET vec == fips140_selftests[k].drbg
        log == trace[r][k]
        ops == Operations(r, k)
    IN /\ Len(ops) <= 4
       /\ \A n \in 1..Len(ops) : n < Len(ops) => ops[n].err = 0
       /\ Len(ops) >= 1 =>
            /\ ops[1].kind = "call" /\ ops[1].op = "crypto_drbg_reset_test"
            /\ ops[1].args = [pers |-> "pers", pers_len |-> vec.pers_size,
                              testentropy |-> "entropy",
                              testentropy_len |-> vec.entropy_size]
       /\ Len(ops) >= 2 => IsRequest(ops[2], vec, "add_a", "entpr_a")
       /\ Len(ops) >= 3 => IsRequest(ops[3], vec, "add_b", "entpr_b")
       /\ Len(ops) >= 4 =>
            /\ ops[4].kind = "check" /\ ops[4].expected = "output"
            /\ ops[4].size = vec.out_size
            /\ BytesOf(k, ops[4].given)
                 = Produced(prov[<<k, "get_bytes (try 2)">>].out,
                            Take(vec.output, vec.out_size))
       /\ Count(log, Len(log), "acquire", "rng") <= 1
       /\ ops # << >> => Count(log, Len(log), "acquire", "rng") = 1
       /\ Finished(r, k) =>
            /\ Outcome(r, k) = 0 <=> (Len(ops) = 4 /\ ops[4].err = 0)
            /\ ops # << >> => Outcome(r, k) = ops[Len(ops)].err

\* The test function of the prediction-resistant DRBG has returned 0, and
\* that of the other DRBG returned an error from its second request.
C9_Witness ==
  \E r \in NowRuns, k \in NowTests \cap DrbgTests :
    /\ fips140_selftests[k].drbg.entpr_size # 0
    /\ Finished(r, k) /\ Outcome(r, k) = 0
    /\ Len(Operations(r, k)) = 4
    /\ \E j \in DrbgTests :
         /\ fips140_selftests[j].drbg.entpr_size = 0
         /\ Finished(r, j)

(***************************************************************************)
(* C10  Determinism across runs.  A run does not write the setting.  With  *)
(* the crypto API answering as before, a run under the same setting as an  *)
(* earlier run repeats it: the log of each test function is the log of the *)
(* earlier run, with the same return value, and the run returns what the   *)
(* earlier run returned.  A test function whose algorithm the setting does *)
(* not name returns 0 whenever the crypto API has answered every call      *)
(* without an error and with the correct bytes.                            *)
(***************************************************************************)
\* The size the instance of entry k must report.
RightSize(k) ==
  LET test == fips140_selftests[k]
  IN CASE test.func = "fips_test_aes" -> test.blockcipher.block_size
       [] test.func = "fips_test_skcipher" -> test.skcipher.iv_size
       [] test.func = "fips_test_aead" -> test.aead.iv_size
       [] test.func = "fips_test_drbg" -> 0
       [] OTHER -> test.hash.digest_size

\* The calls that return an int and write no buffer.
ErrCalls ==
  {"crypto_cipher_setkey", "aes_expandkey", "crypto_skcipher_setkey",
   "crypto_aead_setkey", "crypto_aead_setauthsize", "crypto_shash_setkey",
   "crypto_drbg_reset_test"}

\* Answer a to `call' for entry k is that of a correct crypto API.
IsCorrect(k, call, a) ==
  CASE call = AllocOf(k) ->
         a = [ok |-> TRUE, async |-> FALSE, size |-> RightSize(k)]
    [] call = "skcipher_request_alloc" -> a.req /\ a.message
    [] call = "aead_request_alloc" -> a.req /\ a.assoc /\ a.message
    [] call = "kzalloc" -> a
    [] call \in ErrCalls -> a = 0
    [] OTHER -> a.err = 0 /\ a.out = "good"

ProviderCorrect(k) ==
  \A c \in DOMAIN prov : c[1] = k => IsCorrect(k, c[2], prov[c])

C10_Deterministic ==
  /\ \A r \in NowRuns : opc # "idle" => hist[r].broken = fips140_broken_alg
  /\ \A r2 \in NowRuns, r1 \in Runs :
       (r1 < r2 /\ hist[r1].broken = hist[r2].broken) =>
         /\ \A k \in NowTests :
              /\ IsPrefix(trace[r2][k], trace[r1][k])
              /\ Finished(r2, k) =>
                   /\ trace[r2][k] = trace[r1][k]
                   /\ Outcome(r2, k) = Outcome(r1, k)
         /\ IsPrefix(hist[r2].order, hist[r1].order)
         /\ Over(r2) => hist[r2] = hist[r1]
  /\ \A r \in NowRuns, k \in NowTests :
       (Finished(r, k) /\ ~Targeted(r, k) /\ ProviderCorrect(k)) =>
         Outcome(r, k) = 0

\* Two runs under the same setting have returned true with the same logs,
\* the crypto API having been correct for the last entry.
C10_Witness ==
  /\ run = 2 /\ Over(2)
  /\ hist[1] = hist[2] /\ hist[2].ret = "true"
  /\ trace[1] = trace[2]
  /\ ProviderCorrect(NumTests)

(***************************************************************************)
(* C11  End to end error injection.  When the crypto API has answered      *)
(* every call of a run without an error and with the correct bytes, the    *)
(* run returns false if and only if the setting names an algorithm of the  *)
(* registry; pr_emerg() then names that algorithm, every entry before it   *)
(* was called and returned 0, and no entry after it was called.  The       *)
(* algorithm names of the registry are pairwise distinct.                  *)
(***************************************************************************)
\* Every answer the crypto API has given so far is that of a correct one.
AllCorrect == \A c \in DOMAIN prov : IsCorrect(c[1], c[2], prov[c])

C11_EndToEndInjection ==
  /\ \A j \in Tests, k \in Tests :
       fips140_selftests[j].alg = fips140_selftests[k].alg => j = k
  /\ \A r \in NowRuns :
       (Over(r) /\ AllCorrect) =>
         /\ hist[r].ret = "false" <=> hist[r].broken \in RegistryAlgs
         /\ hist[r].ret = "false" =>
              /\ hist[r].alg = hist[r].broken
              /\ \A k \in Tests :
                   /\ fips140_selftests[k].alg = hist[r].broken =>
                        /\ hist[r].order = [n \in 1..k |-> n]
                        /\ Finished(r, k) /\ Outcome(r, k) = -EBADMSG
                        /\ \A j \in 1..(k - 1) :
                             Finished(r, j) /\ Outcome(r, j) = 0
                        /\ \A j \in (k + 1)..NumTests : trace[r][j] = << >>

\* With a correct crypto API, a run under a setting that names an entry in
\* the middle of the registry has returned false and a run under a setting
\* that names no entry has returned true.
C11_Witness ==
  /\ AllCorrect /\ run = 2 /\ Over(2)
  /\ hist[1].ret = "false" /\ hist[1].alg = "gcm(aes)"
  /\ hist[2].ret = "true" /\ hist[2].broken = NULL

(***************************************************************************)
(* C12  The engine only reports.  Every call the engine makes returns, so  *)
(* a step of a started run is taken whenever one is possible; when and     *)
(* whether fips140_run_selftests() is called is up to its caller.          *)
(***************************************************************************)
\* What the first call of fips140_run_selftests() and its caller do.
FirstCall ==
  \/ run = 0 /\ run_selftests_begin
  \/ Running /\ Next
  \/ clear_broken_alg

FairSpec == Init /\ [][FirstCall]_vars /\ WF_vars(Running /\ Next)

\* What stays true all along a run: no entry's test function is called
\* twice, the engine is in its loop, in a call or back at its caller, and
\* once back it has handed over true or false.
C12_OnlyReports ==
  /\ opc \in {"idle", "loop", "call"}
  /\ \A r \in NowRuns :
       /\ \A k \in Tests : Invocations(r, k) <= 1
       /\ Len(hist[r].order) <= NumTests
       /\ opc = "idle" <=> Over(r)
       /\ Over(r) => hist[r].ret \in {"true", "false"}

\* C12: every started call of fips140_run_selftests() returns to its
\* caller with true or false, a failed run included, having called the
\* test function of each registry entry at most once.
C12_Terminates ==
  /\ []C12_OnlyReports
  /\ \A r \in Runs :
       (run = r /\ Running) ~>
         (run = r /\ ~Running /\ hist[r].ret \in {"true", "false"})

\* A run has failed and has returned false to its caller, and the caller
\* has gone on: it has cleared the setting.
C12_Witness ==
  /\ run = 1 /\ hist[1].ret = "false" /\ ~Running
  /\ hist[1].broken # NULL /\ fips140_broken_alg = NULL

(***************************************************************************)
(* C13  A structural mismatch is a failure.                                *)
(***************************************************************************)
\* Entry k's test function has acquired, in run r, a synchronous instance
\* that reports another block, IV or digest size than the vector declares.
SizeMismatch(r, k) ==
  /\ <<k, AllocOf(k)>> \in DOMAIN prov
  /\ prov[<<k, AllocOf(k)>>].ok /\ ~prov[<<k, AllocOf(k)>>].async
  /\ prov[<<k, AllocOf(k)>>].size # RightSize(k)
  /\ \E n \in 1..Len(trace[r][k]) :
       /\ trace[r][k][n].kind = "acquire"
       /\ trace[r][k][n].res = "tfm" /\ trace[r][k][n].ok

\* The calls that configure a key or perform a transform.
KeyOrTransform(r, k) ==
  {n \in 1..Len(trace[r][k]) :
     /\ trace[r][k][n].kind = "call"
     /\ trace[r][k][n].op # "crypto_aead_setauthsize"}

\* The claim as it was made: a size of the instance that does not suit the
\* vector, the tag size included, makes the test function return before it
\* has configured a key or performed a transform.
C13_AllSizesBeforeKey ==
  \A r \in NowRuns, k \in NowTests :
    LET log == trace[r][k]
    IN /\ SizeMismatch(r, k) => KeyOrTransform(r, k) = {}
       /\ \A n \in CallsOf(r, k, "crypto_aead_setauthsize") :
            log[n].err # 0 => \A m \in KeyOrTransform(r, k) : m > n

\* C13: a block, IV or digest size of the acquired instance that differs
\* from the vector's makes fips_test_blockcipher(), fips_test_skcipher(),
\* fips_test_aead() and fips_test_hash() return -EINVAL with the instance
\* released and no call made on it.  The tag size is not compared: it is
\* set with crypto_aead_setauthsize() after the key and before any
\* transform, and an error of that call is returned with the instance
\* released.
C13_StructuralMismatch ==
  \A r \in NowRuns, k \in NowTests :
    LET log == trace[r][k]
    IN /\ SizeMismatch(r, k) =>
            /\ \A n \in 1..Len(log) : log[n].kind \notin {"call", "check"}
            /\ Finished(r, k) =>
                 /\ Outcome(r, k) = -EINVAL
                 /\ Count(log, Len(log), "release", "tfm") = 1
       /\ \A n \in CallsOf(r, k, "crypto_aead_setauthsize") :
            /\ log[n].args.authsize = tag_size(fips140_selftests[k].aead)
            /\ n - 1 \in CallsOf(r, k, "crypto_aead_setkey")
            /\ log[n - 1].err = 0
            /\ KeyOrTransform(r, k) \cap 1..n = {n - 1}
            /\ log[n].err # 0 =>
                 /\ \A m \in (n + 1)..Len(log) :
                      log[m].kind \notin {"call", "check"}
                 /\ Finished(r, k) =>
                      /\ Outcome(r, k) = log[n].err
                      /\ Count(log, Len(log), "release", "tfm") = 1

\* fips_test_aead() has returned -EINVAL for an instance whose IV size is
\* not the vector's.
C13_Witness ==
  \E r \in NowRuns, k \in NowTests \cap AeadTests :
    /\ SizeMismatch(r, k)
    /\ Finished(r, k) /\ Outcome(r, k) = -EINVAL
    /\ Count(trace[r][k], Len(trace[r][k]), "release", "tfm") = 1

(***************************************************************************)
(* C14  The first error wins and nothing is tried again.                   *)
(***************************************************************************)
\* Entry n of a log is a step that failed, and the error it failed with.
Failed(log, n) ==
  \/ log[n].kind = "acquire" /\ ~log[n].ok
  \/ log[n].kind \in {"call", "check"} /\ log[n].err # 0

ErrorOf(e) == IF e.kind = "acquire" THEN -ENOMEM ELSE e.err

FirstFailed(log) ==
  CHOOSE n \in 1..Len(log) :
    Failed(log, n) /\ \A m \in 1..(n - 1) : ~Failed(log, m)

\* The value a test function returns is the error of its first failed step;
\* it calls nothing twice and is itself called once.
FirstErrorReturned(r, k) ==
  LET log == trace[r][k]
  IN /\ Finished(r, k) =>
          IF \E n \in 1..Len(log) : Failed(log, n)
          THEN Outcome(r, k) = ErrorOf(log[FirstFailed(log)])
          ELSE \/ Outcome(r, k) = 0
               \/ /\ Outcome(r, k) = -EINVAL
                  /\ \A n \in 1..Len(log) :
                       log[n].kind \notin {"call", "check"}
     /\ \A n \in 1..Len(log), m \in 1..Len(log) :
          (n < m /\ log[n].kind = "call" /\ log[m].kind = "call") =>
            <<log[n].op, log[n].args>> # <<log[m].op, log[m].args>>
     /\ Invocations(r, k) <= 1

\* The claim as it was made: after the first failed step a test function
\* does nothing but release.
C14_OnlyReleaseAfterFailure ==
  \A r \in NowRuns, k \in NowTests :
    LET log == trace[r][k]
    IN /\ \A n \in 1..Len(log) :
            Failed(log, n) =>
              \A m \in (n + 1)..Len(log) :
                log[m].kind \in {"release", "return"}
       /\ FirstErrorReturned(r, k)

\* The allocations fips_test_skcipher() and fips_test_aead() make together
\* with that of the request, before they look at any of the results.
WithRequest(log, n, m) ==
  /\ log[n].kind = "acquire" /\ log[n].res \in {"req", "assoc"}
  /\ log[m].kind = "acquire" /\ log[m].res \in {"assoc", "message"}
  /\ \A j \in n..m : log[j].kind = "acquire"

\* C14: after the first failed step (an allocation, a set-key, a
\* set-tag-size, a transform, a reset, a generate or a comparison) a test
\* function makes no further call and no comparison; apart from the
\* allocations made together with a failed request allocation it only
\* releases.  It returns the error of that first failed step, calls
\* nothing twice and is called once in a run.
C14_FirstErrorWins ==
  \A r \in NowRuns, k \in NowTests :
    LET log == trace[r][k]
    IN /\ \A n \in 1..Len(log) :
            Failed(log, n) =>
              \A m \in (n + 1)..Len(log) :
                \/ log[m].kind \in {"release", "return"}
                \/ WithRequest(log, n, m)
       /\ FirstErrorReturned(r, k)

\* fips_test_aead() has returned the error of crypto_aead_setkey(), its
\* last call, after releasing what it held.
C14_Witness ==
  \E r \in NowRuns, k \in NowTests \cap AeadTests :
    LET log == trace[r][k]
    IN /\ Finished(r, k) /\ Outcome(r, k) = -EINVAL
       /\ \E n \in CallsOf(r, k, "crypto_aead_setkey") :
            /\ log[n].err = -EINVAL
            /\ \A m \in (n + 1)..(Len(log) - 1) : log[m].kind = "release"
            /\ Len(log) > n + 1

(***************************************************************************)
(* C15  The size checks come first.                                        *)
(***************************************************************************)
\* A size of the vector is more than the test function's buffers hold (or,
\* where the size is fixed, is another one).
OutOfRange(test) ==
  CASE test.func = "fips_test_aes" ->
         \/ test.blockcipher.block_size > MAX_CIPHER_BLOCKSIZE
         \/ test.blockcipher.block_size # AES_BLOCK_SIZE
    [] test.func = "fips_test_skcipher" ->
         test.skcipher.iv_size > MAX_IV_SIZE
    [] test.func = "fips_test_aead" ->
         \/ test.aead.iv_size > MAX_IV_SIZE
         \/ test.aead.ciphertext_size <= test.aead.plaintext_size
    [] test.func = "fips_test_hash" ->
         test.hash.digest_size > HASH_MAX_DIGESTSIZE
    [] test.func = "fips_test_sha256_library" ->
         test.hash.digest_size # SHA256_DIGEST_SIZE
    [] OTHER -> FALSE

\* C15: a test function called with a vector that has a size out of range
\* returns -EINVAL before it has acquired anything or made any call, and
\* the automatic arrays block, iv and digest never hold more bytes than
\* they were declared with.
C15_SizeChecksFirst ==
  /\ opc = "call" =>
       LET log == trace[run][i]
       IN OutOfRange(TestOf(i)) =>
            /\ \A n \in 1..Len(log) : log[n].kind \in {"invoke", "return"}
            /\ Finished(run, i) => Outcome(run, i) = -EINVAL
            /\ pc = "return" => fr.err = -EINVAL
  /\ Len(fr.block) \in {0, MAX_CIPHER_BLOCKSIZE}
  /\ Len(fr.lib_block) \in {0, AES_BLOCK_SIZE}
  /\ Len(fr.iv) \in {0, MAX_IV_SIZE}
  /\ Len(fr.digest) \in {0, SHA256_DIGEST_SIZE, HASH_MAX_DIGESTSIZE}

\* fips_test_skcipher() has returned -EINVAL for a vector with an IV of 17
\* bytes, having made no call.
C15_Witness ==
  /\ opc = "call" /\ pc = "return" /\ fr.test # 0
  /\ TestOf(i).func = "fips_test_skcipher"
  /\ TestOf(i).skcipher.iv_size = MAX_IV_SIZE + 1
  /\ Outcome(run, i) = -EINVAL /\ Len(trace[run][i]) = 2

(***************************************************************************)
(* C16  What fips_check_result() does.                                     *)
(***************************************************************************)
\* Buffer b with byte 0 inverted.
Byte0Inverted(b) == [b EXCEPT ![1] = XorFF(@)]

\* C16: when the setting is unset or names another algorithm than the
\* test's, fips_check_result() returns 0 exactly if the first result_size
\* bytes of the result are those of the expected result, and leaves the
\* result as it is; when the setting names the test's algorithm it inverts
\* byte 0 of the result, changes no other byte, and compares after that.
\* It returns 0 or -EBADMSG.  So a result that differs from the expected
\* bytes in byte 0 (the expected bytes with byte 0 changed, seen from the
\* result) makes the test function return -EBADMSG and the run false.
C16_Comparator ==
  \A r \in NowRuns, k \in NowTests :
    \A n \in Checks(r, k) :
      LET c == trace[r][k][n]
          given == BytesOf(k, c.given)
          actual == BytesOf(k, c.actual)
          expected == Expected(k, c.expected, c.size)
      IN /\ Len(given) = c.size /\ Len(expected) = c.size
         /\ c.err \in {0, -EBADMSG}
         /\ c.err = 0 <=> actual = expected
         /\ IF Targeted(r, k)
            THEN /\ actual[1] = XorFF(given[1]) /\ actual[1] # given[1]
                 /\ \A j \in 2..c.size : actual[j] = given[j]
            ELSE actual = given
         /\ (~Targeted(r, k) /\ given = Byte0Inverted(expected)) =>
              /\ c.err = -EBADMSG
              /\ Finished(r, k) => Outcome(r, k) = -EBADMSG
              /\ hist[r].ret # "true"
              /\ Over(r) => /\ hist[r].ret = "false"
                            /\ hist[r].alg = fips140_selftests[k].alg

\* With no error injection for the algorithm, a ciphertext that differs
\* from the vector's in byte 0 only was compared and the run has returned
\* false.
C16_Witness ==
  \E r \in NowRuns, k \in NowTests :
    /\ ~Targeted(r, k) /\ Over(r) /\ hist[r].ret = "false"
    /\ \E n \in Checks(r, k) :
         LET c == trace[r][k][n]
         IN /\ c.expected = "ciphertext"
            /\ BytesOf(k, c.given)
                 = Byte0Inverted(Expected(k, "ciphertext", c.size))
            /\ c.actual = c.given

(***************************************************************************)
(* C17  The IV is set anew before every transform.                         *)
(***************************************************************************)
\* The transforms that are handed the IV buffer.
IvOps ==
  {"crypto_skcipher_encrypt", "crypto_skcipher_decrypt",
   "crypto_aead_encrypt", "crypto_aead_decrypt"}

\* The calls of entry k's log in run r that are handed the IV buffer.
IvCalls(r, k) ==
  {n \in 1..Len(trace[r][k]) :
     trace[r][k][n].kind = "call" /\ trace[r][k][n].op \in IvOps}

\* The first iv_size bytes of the IV buffer are not the vector's IV.
IvDirty ==
  LET vec == VecOf(fips140_selftests[i])
  IN Take(fr.iv, vec.iv_size) # Take(vec.iv, vec.iv_size)

\* C17: every encryption and every decryption of fips_test_skcipher() and
\* fips_test_aead() is handed an IV buffer whose first iv_size bytes are
\* the vector's IV, whatever the transform before it left in the buffer.
C17_IvReset ==
  \A r \in NowRuns, k \in NowTests :
    \A n \in IvCalls(r, k) :
      LET c == trace[r][k][n]
          vec == VecOf(fips140_selftests[k])
      IN /\ c.args.iv.len = vec.iv_size
         /\ BytesOf(k, c.args.iv) = Take(vec.iv, vec.iv_size)

\* In this run fips_test_skcipher() has decrypted for "cbc(aes)", and now
\* fips_test_aead() is about to decrypt with an IV buffer that its
\* encryption, handed the vector's IV, has overwritten.
C17_Witness ==
  /\ opc = "call" /\ pc = "aead_decrypt" /\ IvDirty
  /\ \E n \in CallsOf(run, i, "crypto_aead_encrypt") :
       trace[run][i][n].args.iv.diff = {}
  /\ \E n \in CallsOf(run, 2, "crypto_skcipher_decrypt") :
       /\ trace[run][2][n].args.iv.diff = {}
       /\ trace[run][2][n].args.iv.len = MAX_IV_SIZE

(***************************************************************************)
(* C18  fips_test_aes() tests AES through the crypto API and through the   *)
(* library functions.                                                      *)
(***************************************************************************)
AesTests == {k \in Tests : fips140_selftests[k].func = "fips_test_aes"}

LibraryOps == {"aes_expandkey", "aes_encrypt", "aes_decrypt"}

\* The comparisons of fips_test_aes(), in the order it makes them: what
\* is compared with, and the operation the message names.
AesComparisons ==
  << <<"ciphertext", "encryption">>, <<"plaintext", "decryption">>,
     <<"ciphertext", "encryption (library API)">>,
     <<"plaintext", "decryption (library API)">> >>

\* The comparisons of a log, in order.
ComparisonsOf(log) ==
  SelectSeq(log, LAMBDA e : e.kind = "check")

\* C18: fips_test_aes() returns 0 exactly if it has made its four
\* comparisons (encryption and decryption by the crypto API, encryption
\* and decryption by the library, each of one block of 16 bytes) and all
\* four returned 0.  The library functions are called only after both
\* comparisons of the crypto API test returned 0 and the instance was
\* released, and an error of aes_expandkey() is returned.
C18_AesDualPath ==
  \A r \in NowRuns, k \in NowTests \cap AesTests :
    LET log == trace[r][k]
        cmp == ComparisonsOf(log)
    IN /\ Len(cmp) <= 4
       /\ \A n \in 1..Len(cmp) :
            /\ <<cmp[n].expected, cmp[n].operation>> = AesComparisons[n]
            /\ cmp[n].size = AES_BLOCK_SIZE
            /\ n < Len(cmp) => cmp[n].err = 0
       /\ Finished(r, k) =>
            (Outcome(r, k) = 0 <=>
               (Len(cmp) = 4 /\ \A n \in 1..4 : cmp[n].err = 0))
       /\ \A n \in 1..Len(log) :
            (log[n].kind = "call" /\ log[n].op \in LibraryOps) =>
              /\ \E m \in 1..(n - 1) :
                   log[m] = Release("tfm", "tfm")
              /\ Cardinality({m \in Checks(r, k) :
                                m < n /\ log[m].err = 0}) >= 2
              /\ \A m \in (n + 1)..Len(log) :
                   ~(log[m].kind = "call" /\ log[m].op \notin LibraryOps)
              /\ (log[n].op = "aes_expandkey" /\ log[n].err # 0) =>
                   /\ \A m \in (n + 1)..Len(log) : log[m].kind = "return"
                   /\ Finished(r, k) => Outcome(r, k) = log[n].err

\* fips_test_aes() has returned 0 after four comparisons, the last two on
\* what the library functions produced.
C18_Witness ==
  \E r \in NowRuns, k \in NowTests \cap AesTests :
    /\ Finished(r, k) /\ Outcome(r, k) = 0
    /\ Len(ComparisonsOf(trace[r][k])) = 4
    /\ CallsOf(r, k, "aes_expandkey") # {}

(***************************************************************************)
(* C19  The sizes the registry declares.                                   *)
(***************************************************************************)
\* The size fields of a test vector, each with the buffers it is the size
\* of.
SizeFields(test) ==
  CASE test.func = "fips_test_aes" ->
         {<<"key_size", "key">>, <<"block_size", "plaintext">>,
          <<"block_size", "ciphertext">>}
    [] test.func = "fips_test_skcipher" ->
         {<<"key_size", "key">>, <<"iv_size", "iv">>,
          <<"message_size", "plaintext">>, <<"message_size", "ciphertext">>}
    [] test.func = "fips_test_aead" ->
         {<<"key_size", "key">>, <<"iv_size", "iv">>,
          <<"assoc_size", "assoc">>, <<"plaintext_size", "plaintext">>,
          <<"ciphertext_size", "ciphertext">>}
    [] test.func = "fips_test_drbg" ->
         {<<"entropy_size", "entropy">>, <<"pers_size", "pers">>,
          <<"entpr_size", "entpr_a">>, <<"entpr_size", "entpr_b">>,
          <<"add_size", "add_a">>, <<"add_size", "add_b">>,
          <<"out_size", "output">>}
    [] OTHER ->
         {<<"key_size", "key">>, <<"message_size", "message">>,
          <<"digest_size", "digest">>}

\* The AEAD ciphertext is longer than the plaintext by the tag.
TagAppended(test) ==
  test.func = "fips_test_aead" =>
    /\ tag_size(test.aead) > 0
    /\ Len(test.aead.ciphertext)
         = Len(test.aead.plaintext) + tag_size(test.aead)

\* The entries the loop of fips140_run_selftests() has come to: in the end,
\* all of them.
Reached == {k \in Tests : k <= i}

\* The claim as it was made: every size field of every entry is the length
\* of its buffer.
C19_SizesExact ==
  \A k \in Reached :
    LET test == fips140_selftests[k]
    IN /\ \A s \in SizeFields(test) :
            VecOf(test)[s[1]] = Len(VecOf(test)[s[2]])
       /\ TagAppended(test)

\* The size fields that are less than the length of their buffer: the
\* block cipher test uses the first block of the message, and the AEAD
\* test the first 12 bytes of the IV.
PartOfBuffer ==
  {<<"aes", "block_size", "plaintext">>,
   <<"aes", "block_size", "ciphertext">>,
   <<"gcm(aes)", "iv_size", "iv">>}

\* C19: no size field of an entry is more than the length of its buffer,
\* and each is that length except block_size of "aes" (16, one block of
\* the message) and iv_size of "gcm(aes)" (12 of the 16 bytes of the IV);
\* the AEAD ciphertext is longer than the plaintext by the tag.
C19_SizesWithinBuffers ==
  \A k \in Reached :
    LET test == fips140_selftests[k]
        vec == VecOf(test)
    IN /\ \A s \in SizeFields(test) :
            IF <<test.alg, s[1], s[2]>> \in PartOfBuffer
            THEN vec[s[1]] < Len(vec[s[2]])
            ELSE vec[s[1]] = Len(vec[s[2]])
       /\ test.func = "fips_test_aes" => vec.block_size = AES_BLOCK_SIZE
       /\ test.alg = "gcm(aes)" => vec.iv_size = 12
       /\ TagAppended(test)

\* fips_test_aead() has encrypted for "gcm(aes)" with the first 12 bytes
\* of an IV of 16 bytes.
C19_Witness ==
  \E k \in NowTests \cap AeadTests :
    /\ k \in Reached
    /\ Len(fips140_selftests[k].aead.iv) = MAX_IV_SIZE
    /\ \E n \in CallsOf(run, k, "crypto_aead_encrypt") :
         trace[run][k][n].args.iv.len = 12

(***************************************************************************)
(* C20  A test function passes only through fips_check_result().           *)
(***************************************************************************)
\* How many comparisons a test function makes when it passes.
ComparisonsToPass(func) ==
  CASE func = "fips_test_aes" -> 4
    [] func \in {"fips_test_skcipher", "fips_test_aead"} -> 2
    [] OTHER -> 1

\* C20: a test function that has returned 0 has called fips_check_result()
\* at least once (as often as it has results to compare), every call has
\* returned 0, and it made the last of them after its last call of the
\* crypto API or the library.
C20_PassOnlyByComparison ==
  \A r \in NowRuns, k \in NowTests :
    (Finished(r, k) /\ Outcome(r, k) = 0) =>
      LET log == trace[r][k]
      IN /\ Checks(r, k) # {}
         /\ Cardinality(Checks(r, k))
              = ComparisonsToPass(fips140_selftests[k].func)
         /\ \A n \in Checks(r, k) : log[n].err = 0
         /\ \E n \in Checks(r, k) :
              \A m \in 1..Len(log) : log[m].kind = "call" => m < n

\* fips_test_hash() has returned 0 after its one comparison, which
\* returned 0.
C20_Witness ==
  \E r \in NowRuns, k \in NowTests :
    /\ fips140_selftests[k].func = "fips_test_hash"
    /\ Finished(r, k) /\ Outcome(r, k) = 0
    /\ Cardinality(Checks(r, k)) = 1
    /\ \A n \in Checks(r, k) : trace[r][k][n].err = 0

(***************************************************************************)
(* C21  A test function owns what it allocates, and only while it runs.    *)
(***************************************************************************)
\* How many of resource res are allocated after the first n entries of a
\* log.
Live(log, n, res) ==
  Count(log, n, "acquire", res) - Count(log, n, "release", res)

\* How many instances are allocated after the first n entries of a log,
\* and how many were allocated in them.
LiveInstances(log, n) == Live(log, n, "tfm") + Live(log, n, "rng")

AcquiredInstances(log, n) ==
  Count(log, n, "acquire", "tfm") + Count(log, n, "acquire", "rng")

\* C21: at every point of the call of a test function at most one instance
\* is allocated, the function allocates at most one instance in all, and
\* once it has returned (so between two calls of test functions and when
\* fips140_run_selftests() returns) no instance, request or buffer it
\* allocated is left and the engine holds no pointer to one.
C21_ExclusiveOwnership ==
  /\ \A r \in NowRuns, k \in NowTests :
       LET log == trace[r][k]
       IN /\ \A n \in 1..Len(log) :
               /\ LiveInstances(log, n) \in {0, 1}
               /\ AcquiredInstances(log, n) <= 1
          /\ (opc # "call" \/ pc = "return") =>
               \/ log = << >>
               \/ /\ Finished(r, k)
                  /\ \A res \in Resources : Live(log, Len(log), res) = 0
          /\ (opc = "call" /\ pc # "return") => ~Finished(r, k)
  /\ opc # "call" => fr = FreshFrame

\* fips_test_aead() is about to encrypt: it holds its instance, its
\* request and its two buffers, and nothing else is allocated.
C21_Witness ==
  /\ opc = "call" /\ pc = "aead_encrypt"
  /\ LET log == trace[run][i]
     IN /\ Live(log, Len(log), "tfm") = 1
        /\ Live(log, Len(log), "rng") = 0
        /\ Live(log, Len(log), "req") = 1
        /\ Live(log, Len(log), "assoc") = 1
        /\ Live(log, Len(log), "message") = 1
  /\ \A k \in 1..(i - 1) :
       /\ Finished(run, k)
       /\ \A res \in Resources :
            Live(trace[run][k], Len(trace[run][k]), res) = 0

(***************************************************************************)
(* C22  The key of a hash test, and the SHA-256 library test.              *)
(***************************************************************************)
HashTests == {k \in Tests : fips140_selftests[k].func = "fips_test_hash"}

Sha256LibraryTests ==
  {k \in Tests : fips140_selftests[k].func = "fips_test_sha256_library"}

\* C22: fips_test_hash() calls crypto_shash_setkey() only for a vector
\* with a key, and then once, with the vector's key, before the digest is
\* computed: a digest is computed after a set-key that returned 0 if the
\* vector has a key, and after no set-key if it has none.  An error of the
\* set-key is returned with no digest computed.
\* fips_test_sha256_library() allocates nothing: it calls sha256() and
\* then fips_check_result() on the 32 bytes, whose value it returns.
C22_HashKeying ==
  /\ \A r \in NowRuns, k \in NowTests \cap HashTests :
       LET log == trace[r][k]
           vec == fips140_selftests[k].hash
           setkeys == CallsOf(r, k, "crypto_shash_setkey")
           digests == CallsOf(r, k, "crypto_shash_tfm_digest")
       IN /\ setkeys # {} => vec.key # NoData
          /\ Cardinality(setkeys) <= 1 /\ Cardinality(digests) <= 1
          /\ \A n \in setkeys :
               /\ log[n].args = [key |-> "key", keylen |-> vec.key_size]
               /\ \A m \in digests : n < m
               /\ log[n].err # 0 =>
                    /\ digests = {}
                    /\ Checks(r, k) = {}
                    /\ Finished(r, k) => Outcome(r, k) = log[n].err
          /\ \A m \in digests :
               vec.key # NoData <=> \E n \in setkeys : log[n].err = 0
  /\ \A r \in NowRuns, k \in NowTests \cap Sha256LibraryTests :
       LET log == trace[r][k]
       IN /\ \A n \in 1..Len(log) : log[n].kind # "acquire"
          /\ \A n \in 1..Len(log) : log[n].kind = "call" => log[n].op = "sha256"
          /\ \A n \in Checks(r, k) :
               /\ n - 1 \in CallsOf(r, k, "sha256")
               /\ log[n].expected = "digest"
               /\ log[n].size = SHA256_DIGEST_SIZE
               /\ log[n].err = 0 <=>
                    BytesOf(k, log[n].actual)
                      = Expected(k, "digest", SHA256_DIGEST_SIZE)
               /\ Finished(r, k) => Outcome(r, k) = log[n].err
          /\ Finished(r, k) => Cardinality(Checks(r, k)) = 1

\* fips_test_hash() has returned 0 for "hmac(sha256)", having set the key
\* before it computed the digest.
C22_Witness ==
  \E r \in NowRuns, k \in NowTests \cap HashTests :
    /\ fips140_selftests[k].hash.key # NoData
    /\ Finished(r, k) /\ Outcome(r, k) = 0
    /\ \E n \in CallsOf(r, k, "crypto_shash_setkey") :
         n + 1 \in CallsOf(r, k, "crypto_shash_tfm_digest")

(***************************************************************************)
(* C23  Each test function reads the member of the union that its entry    *)
(* initialises.                                                            *)
(***************************************************************************)
\* The members of the union in struct fips_test.
Members == {"blockcipher", "aead", "skcipher", "hash", "drbg"}

\* The member a test function reads: vec = &test-><member>.
MemberRead(func) ==
  CASE func = "fips_test_aes" -> "blockcipher"
    [] func = "fips_test_skcipher" -> "skcipher"
    [] func = "fips_test_aead" -> "aead"
    [] func = "fips_test_drbg" -> "drbg"
    [] OTHER -> "hash"

\* The statements of a test function (fips_test_blockcipher() is called by
\* fips_test_aes() only).
Statements(func) ==
  CASE func = "fips_test_aes" ->
         {"aes", "blockcipher_alloc", "blockcipher_validate",
          "blockcipher_setkey", "blockcipher_encrypt",
          "blockcipher_check_enc", "blockcipher_decrypt",
          "blockcipher_check_dec", "blockcipher_out", "aes_expandkey",
          "aes_encrypt", "aes_check_enc", "aes_decrypt", "aes_check_dec"}
    [] func = "fips_test_skcipher" ->
         {"skcipher", "skcipher_validate", "skcipher_request_alloc",
          "skcipher_setkey", "skcipher_encrypt", "skcipher_check_enc",
          "skcipher_decrypt", "skcipher_check_dec", "skcipher_out"}
    [] func = "fips_test_aead" ->
         {"aead", "aead_validate", "aead_request_alloc", "aead_setkey",
          "aead_setauthsize", "aead_encrypt", "aead_check_enc",
          "aead_decrypt", "aead_check_dec", "aead_out"}
    [] func = "fips_test_hash" ->
         {"hash", "hash_validate", "hash_setkey", "hash_digest",
          "hash_check", "hash_out"}
    [] func = "fips_test_sha256_library" ->
         {"sha256_library", "sha256_library_check"}
    [] func = "fips_test_drbg" ->
         {"drbg", "drbg_validate", "drbg_reset", "drbg_generate_a",
          "drbg_generate_b", "drbg_check", "drbg_out"}

\* C23: every entry of the registry initialises one member of the union,
\* the one its test function reads; and while a test function executes,
\* the statements executed are those of the function bound to the entry it
\* was called for, so the member read is the member initialised.
C23_FamilyDispatch ==
  /\ \A k \in Reached :
       DOMAIN fips140_selftests[k] \cap Members
         = {MemberRead(fips140_selftests[k].func)}
  /\ (opc = "call" /\ pc # "return") =>
       /\ pc \in Statements(TestOf(i).func)
       /\ MemberRead(TestOf(i).func) \in DOMAIN TestOf(i)
       /\ trace[run][i][1] = [kind |-> "invoke", func |-> TestOf(i).func]

\* fips_test_drbg() is executing for the last entry of the registry, which
\* initialises the member drbg with entropy for prediction resistance.
C23_Witness ==
  /\ opc = "call" /\ pc = "drbg_generate_a" /\ Reached = Tests
  /\ "drbg" \in DOMAIN TestOf(i)
  /\ TestOf(i).drbg.entpr_size > 0

=============================================================================
